---------------------------- MODULE Spec2Model ----------------------------
(***************************************************************************)
(* A model of rsrcdump-ts: the resource-fork container codec               *)
(* (ResourceForkParser), the type-name codec (textio), the struct-template *)
(* engine (StructTemplateParser / StructConverter) and the structured-text *)
(* mapper (jsonio).                                                        *)
(*                                                                         *)
(* Conventions.  A byte buffer (Uint8Array) is a sequence of 0..255 whose  *)
(* element i+1 is the byte at JavaScript index i.  A string is the         *)
(* sequence of its character codes; a template string and a field name are *)
(* sequences of one-letter strings.  An optional value (T | undefined) is  *)
(* a sequence of length 0 (undefined) or 1.  A JavaScript Map is the       *)
(* sequence of its <<key, value>> entries in insertion order.  An unsigned *)
(* 32-bit number is the pair <<hi, lo>> of its 16-bit halves, because the  *)
(* model checker's integers stop at 2^31 - 1.                              *)
(***************************************************************************)
EXTENDS Integers, Sequences, FiniteSets, TLC

VARIABLES
    pc,          \* the step the scenario has reached
    tag,         \* type-name codec: the raw 4-byte tag
    sane,        \* type-name codec: sanitizeTypeName(tag)
    parsed,      \* type-name codec: parseTypeName(saneName)
    fork,        \* container codec: the in-memory ResourceFork
    buf,         \* container codec: the serialized bytes
    damage,      \* container codec: what was done to buf after encoding
    decoded,     \* container codec: the outcome of fromBytes(buf)
    source,      \* struct engine: the template string
    template,    \* struct engine: the outcome of fromTemplateString(source)
    resource,    \* struct engine: the resource handed to unpack
    unpacked,    \* struct engine: the outcome of StructConverter.unpack
    packed,      \* struct engine: the outcome of StructConverter.pack
    given,       \* struct engine: the value handed to pack that unpack did not return
    converters,  \* structured text: the converter registry
    json,        \* structured text: the outcome of resourceForkToJson
    restored     \* structured text: the outcome of jsonToResourceFork

tnVars == <<tag, sane, parsed>>
ccVars == <<fork, buf, damage, decoded>>
stVars == <<source, template, resource, unpacked, packed, given>>
jsVars == <<converters, json, restored>>
vars == <<pc, tnVars, ccVars, stVars, jsVars>>

(***************************************************************************)
(* Generic helpers.                                                        *)
(***************************************************************************)
Min(a, b) == IF a < b THEN a ELSE b
Max(a, b) == IF a > b THEN a ELSE b

Undefined == <<>>
Some(v) == <<v>>
IsDefined(o) == Len(o) = 1

RECURSIVE Concat(_)
Concat(ss) == IF ss = <<>> THEN <<>> ELSE Head(ss) \o Concat(Tail(ss))

RECURSIVE SumSeq(_)
SumSeq(s) == IF s = <<>> THEN 0 ELSE Head(s) + SumSeq(Tail(s))

Repeat(v, n) == [i \in 1..n |-> v]

(***************************************************************************)
(* Text helpers: hexadecimal digits, UTF-8 (TextEncoder), percent coding.  *)
(***************************************************************************)
\* The upper-case hexadecimal digit of n in 0..15, as a character code.
HexDigit(n) == IF n < 10 THEN 48 + n ELSE 55 + n
\* The lower-case hexadecimal digit, as Number.prototype.toString(16) writes it.
HexDigitLower(n) == IF n < 10 THEN 48 + n ELSE 87 + n
ToUpperCase(c) == IF c >= 97 /\ c <= 122 THEN c - 32 ELSE c
IsHexChar(c) == (c >= 48 /\ c <= 57) \/ (c >= 65 /\ c <= 70) \/ (c >= 97 /\ c <= 102)
HexVal(c) == IF c <= 57 THEN c - 48 ELSE IF c <= 70 THEN c - 55 ELSE c - 87

\* new TextEncoder().encode of one character code (below 0x10000, no surrogates).
UTF8Char(c) ==
    IF c < 128 THEN <<c>>
    ELSE IF c < 2048 THEN <<192 + (c \div 64), 128 + (c % 64)>>
    ELSE <<224 + (c \div 4096), 128 + ((c \div 64) % 64), 128 + (c % 64)>>

\* new TextEncoder().encode(str)
TextEncode(str) == Concat([i \in 1..Len(str) |-> UTF8Char(str[i])])

\* "%XX" for one byte, upper-case as encodeURIComponent writes it.
PercentByte(b) == <<37, HexDigit(b \div 16), HexDigit(b % 16)>>

\* encodeURIComponent(String.fromCharCode(b)) for the characters sanitizeTypeName
\* hands to it (b < 32 or b > 126): the UTF-8 bytes of the character, each as %XX.
EncodeURIChar(b) ==
    LET u == UTF8Char(b)
    IN  Concat([i \in 1..Len(u) |-> PercentByte(u[i])])

\* How many continuation bytes a UTF-8 lead byte announces (0: not a lead byte).
ContCount(b) ==
    IF b >= 194 /\ b <= 223 THEN 1
    ELSE IF b >= 224 /\ b <= 239 THEN 2
    ELSE IF b >= 240 /\ b <= 244 THEN 3
    ELSE 0

\* The byte of the escape "%XX" at position i of s, or -1 when there is none.
EscapeAt(s, i) ==
    IF i + 2 <= Len(s) /\ s[i] = 37 /\ IsHexChar(s[i + 1]) /\ IsHexChar(s[i + 2])
    THEN HexVal(s[i + 1]) * 16 + HexVal(s[i + 2])
    ELSE -1

\* Whether the second byte of a UTF-8 sequence is allowed after this lead byte.
SecondByteOk(lead, b) ==
    CASE lead = 224 -> b >= 160 /\ b <= 191
      [] lead = 237 -> b >= 128 /\ b <= 159
      [] lead = 240 -> b >= 144 /\ b <= 191
      [] lead = 244 -> b >= 128 /\ b <= 143
      [] OTHER -> b >= 128 /\ b <= 191

\* new TextEncoder().encode(decodeURIComponent(s)) from position i on: the
\* bytes, or ok = FALSE where decodeURIComponent throws URIError (a '%' that
\* does not start an escape, or escapes that are not well-formed UTF-8).
RECURSIVE DecodeURIBytes(_, _)
DecodeURIBytes(s, i) ==
    IF i > Len(s) THEN [ok |-> TRUE, bytes |-> <<>>]
    ELSE IF s[i] # 37
    THEN LET r == DecodeURIBytes(s, i + 1)
         IN  [ok |-> r.ok, bytes |-> UTF8Char(s[i]) \o r.bytes]
    ELSE LET b == EscapeAt(s, i)
             n == IF b < 0 THEN 0 ELSE ContCount(b)
             cont == [k \in 1..n |-> EscapeAt(s, i + 3 * k)]
         IN  IF b < 0 THEN [ok |-> FALSE, bytes |-> <<>>]
             ELSE IF b < 128
             THEN LET r == DecodeURIBytes(s, i + 3)
                  IN  [ok |-> r.ok, bytes |-> <<b>> \o r.bytes]
             ELSE IF n = 0 THEN [ok |-> FALSE, bytes |-> <<>>]
             ELSE IF \E k \in 1..n :
                        IF k = 1 THEN ~SecondByteOk(b, cont[k])
                        ELSE cont[k] < 128 \/ cont[k] > 191
             THEN [ok |-> FALSE, bytes |-> <<>>]
             ELSE LET r == DecodeURIBytes(s, i + 3 * (n + 1))
                  IN  [ok |-> r.ok, bytes |-> <<b>> \o cont \o r.bytes]

(***************************************************************************)
(* Type-name codec (textio).                                               *)
(***************************************************************************)
isAllSpaces(data) == \A i \in 1..Len(data) : data[i] = 32

\* The number of '0' characters that end s.
RECURSIVE TrailingZeros(_)
TrailingZeros(s) ==
    IF s = <<>> \/ s[Len(s)] # 48 THEN 0
    ELSE 1 + TrailingZeros(SubSeq(s, 1, Len(s) - 1))

\* result.replace(/%20+$/, ''): the regular expression is '%', '2', then one or
\* more '0' up to the end of the string.
StripPct20(s) ==
    LET k == TrailingZeros(s)
        n == Len(s)
    IN  IF k >= 1 /\ n - k >= 2 /\ s[n - k] = 50 /\ s[n - k - 1] = 37
        THEN SubSeq(s, 1, n - k - 2)
        ELSE s

\* One byte of the tag as sanitizeTypeName appends it to the result.
SanitizeByte(byte) ==
    IF byte >= 32 /\ byte <= 126 THEN <<byte>> ELSE EncodeURIChar(byte)

\* sanitizeTypeName(restype) for a 4-byte restype (every caller passes 4 bytes;
\* any other length throws).
sanitizeTypeName(restype) ==
    LET result == Concat([i \in 1..Len(restype) |-> SanitizeByte(restype[i])])
    IN  IF ~isAllSpaces(restype) THEN StripPct20(result) ELSE result

\* parseTypeName(saneName): err is "" on success, else the error thrown.
parseTypeName(saneName) ==
    LET d == DecodeURIBytes(saneName, 1)
        decoded_ == d.bytes
        result == [i \in 1..4 |-> IF i <= Min(Len(decoded_), 4) THEN decoded_[i] ELSE 32]
    IN  IF ~d.ok THEN [err |-> "URIError", bytes |-> <<>>]
        ELSE IF Len(decoded_) > 4
        THEN [err |-> "decoded restype doesn't work out to 4 bytes", bytes |-> <<>>]
        ELSE [err |-> "", bytes |-> result]

(***************************************************************************)
(* Numbers and bytes (DataView, big-endian).  A position is a JavaScript   *)
(* index (from 0); the byte at position p of data is data[p + 1].          *)
(***************************************************************************)
\* The bytes DataView.setUint32 writes for an integer n, -2^31 < n < 2^31.
U32Bytes(n) ==
    <<(n \div 16777216) % 256, (n \div 65536) % 256, (n \div 256) % 256, n % 256>>
\* The bytes DataView.setUint16 / setInt16 write for an integer n (ToUint16).
U16Bytes(n) == <<(n \div 256) % 256, n % 256>>
\* The bytes DataView.setUint32 writes for an unsigned 32-bit pair <<hi, lo>>.
PairBytes(p) == U16Bytes(p[1]) \o U16Bytes(p[2])

NatToPair(n) == <<n \div 65536, n % 65536>>
\* The number a pair stands for; used only once it is known to be small.
PairToNat(p) == p[1] * 65536 + p[2]
PairAdd(a, b) == <<a[1] + b[1] + ((a[2] + b[2]) \div 65536), (a[2] + b[2]) % 65536>>
\* pair > n, for a natural number n.
PairGtNat(p, n) == p[1] > n \div 65536 \/ (p[1] = n \div 65536 /\ p[2] > n % 65536)
\* pair >= n, for a natural number n.
PairGeNat(p, n) == p[1] > n \div 65536 \/ (p[1] = n \div 65536 /\ p[2] >= n % 65536)
PairIsZero(p) == p[1] = 0 /\ p[2] = 0

Zero32 == <<0, 0>>
\* 0xFFFFFFFF, the value of an unset order.
OrderSentinel == <<65535, 65535>>

\* Whether a DataView read of n bytes at position p of data is in range.
InRange(data, p, n) == p >= 0 /\ p + n <= Len(data)
GetU8(data, p) == data[p + 1]
GetU16(data, p) == data[p + 1] * 256 + data[p + 2]
GetI16(data, p) == LET u == GetU16(data, p) IN IF u >= 32768 THEN u - 65536 ELSE u
GetU32(data, p) == <<GetU16(data, p), GetU16(data, p + 2)>>

(***************************************************************************)
(* JavaScript Map: the sequence of its <<key, value>> entries.             *)
(***************************************************************************)
MapHas(m, k) == \E i \in 1..Len(m) : m[i][1] = k
MapGet(m, k) == m[CHOOSE i \in 1..Len(m) : m[i][1] = k][2]
\* Map.prototype.set: a present key keeps its place, a new key goes last.
MapSet(m, k, v) ==
    IF MapHas(m, k)
    THEN [i \in 1..Len(m) |-> IF m[i][1] = k THEN <<k, v>> ELSE m[i]]
    ELSE Append(m, <<k, v>>)
MapKeys(m) == {m[i][1] : i \in 1..Len(m)}

\* resources.get(type).set(id, resource), creating the type's Map when absent.
AddResource(resources, res) ==
    MapSet(resources, res.type,
           MapSet(IF MapHas(resources, res.type) THEN MapGet(resources, res.type) ELSE <<>>,
                  res.id, res))

(***************************************************************************)
(* Container codec: ResourceForkParser.toBytes.                            *)
(***************************************************************************)
\* resource.name is truthy: defined and not the empty string.
HasName(res) == IsDefined(res.name) /\ Len(res.name[1]) > 0

\* The fork's resources in iteration order (types, then ids), each with the
\* index t of its type and its index j inside the type.
FlatResources(f) ==
    Concat([t \in 1..Len(f.resources) |->
        [j \in 1..Len(f.resources[t][2]) |->
            [t |-> t, j |-> j, res |-> f.resources[t][2][j][2]]]])

\* First pass of toBytes: the sizes.
DataSize(f) ==
    LET rs == FlatResources(f)
    IN  SumSeq([i \in 1..Len(rs) |-> 4 + Len(rs[i].res.data)])
NameSize(f) ==
    LET rs == FlatResources(f)
    IN  SumSeq([i \in 1..Len(rs) |->
            IF HasName(rs[i].res) THEN 1 + Len(rs[i].res.name[1]) ELSE 0])
ResourceCount(f) == Len(FlatResources(f))
TypeCount(f) == Len(f.resources)
ResourceListSize(f) == ResourceCount(f) * 12
TypeListSize(f) == 2 + TypeCount(f) * 8
MapHeaderSize == 30
DataOffsetOut == 16
MapOffsetOut(f) == DataOffsetOut + DataSize(f)
MapSize(f) == MapHeaderSize + TypeListSize(f) + ResourceListSize(f) + NameSize(f)
TotalSize(f) == DataOffsetOut + DataSize(f) + MapSize(f)
TypeListOffsetInMapOut == 30
NameListOffsetInMapOut(f) == TypeListOffsetInMapOut + TypeListSize(f) + ResourceListSize(f)

\* The position, relative to the data section, of the i-th flat resource's record.
RecordOffset(f, i) ==
    LET rs == FlatResources(f)
    IN  SumSeq([k \in 1..(i - 1) |-> 4 + Len(rs[k].res.data)])

\* The name-list offset the i-th flat resource gets, were it named.
NameOffsetOut(f, i) ==
    LET rs == FlatResources(f)
    IN  SumSeq([k \in 1..(i - 1) |->
            IF HasName(rs[k].res) THEN 1 + Len(rs[k].res.name[1]) ELSE 0])

\* The offset, relative to the type list, of the resource list of type t.
ResourceListOffsetOut(f, t) ==
    TypeListSize(f) + SumSeq([k \in 1..(t - 1) |-> Len(f.resources[k][2]) * 12])

\* typeName.padEnd(4, '\0').substring(0, 4), encoded by TextEncoder.
TypeBytesOut(typeName) ==
    LET padded == typeName \o Repeat(0, Max(0, 4 - Len(typeName)))
    IN  TextEncode(SubSeq(padded, 1, 4))

\* Mutant of PackedAttrBytes: the offset alone is stored, without the flags.
PackedAttrBytes_NoFlags(flags, offset) ==
    <<0, (offset \div 65536) % 256, (offset \div 256) % 256, offset % 256>>

\* (flags << 24) | (offset & 0x00FFFFFF), as setUint32 stores it.
PackedAttrBytes(flags, offset) ==
    <<flags % 256, (offset \div 65536) % 256, (offset \div 256) % 256, offset % 256>>

\* One store into the output buffer.  how = "view": a DataView setter, which
\* throws RangeError out of range; "set": Uint8Array.set, which throws
\* RangeError out of range; "index": bytes[p] = v, ignored out of range.
Write(sec, how, at, bytes) == [sec |-> sec, how |-> how, at |-> at, bytes |-> bytes]

HeaderWrites(f) ==
    << Write("header", "view", 0, U32Bytes(DataOffsetOut)),
       Write("header", "view", 4, U32Bytes(MapOffsetOut(f))),
       Write("header", "view", 8, U32Bytes(DataSize(f))),
       Write("header", "view", 12, U32Bytes(MapSize(f))) >>

DataWrites(f) ==
    LET rs == FlatResources(f)
    IN  Concat([i \in 1..Len(rs) |->
            << Write("data", "view", DataOffsetOut + RecordOffset(f, i),
                     U32Bytes(Len(rs[i].res.data))),
               Write("data", "set", DataOffsetOut + RecordOffset(f, i) + 4,
                     rs[i].res.data) >>])

MapHeaderWrites(f) ==
    LET m == MapOffsetOut(f)
    IN  << Write("mapheader", "view", m, U32Bytes(DataOffsetOut)),
           Write("mapheader", "view", m + 4, U32Bytes(MapOffsetOut(f))),
           Write("mapheader", "view", m + 8, U32Bytes(DataSize(f))),
           Write("mapheader", "view", m + 12, U32Bytes(MapSize(f))),
           Write("mapheader", "view", m + 16, PairBytes(f.junkNextresmap)),
           Write("mapheader", "view", m + 20, U16Bytes(f.junkFilerefnum)),
           Write("mapheader", "view", m + 22, U16Bytes(f.fileAttributes)),
           Write("mapheader", "view", m + 24, U16Bytes(TypeListOffsetInMapOut)),
           Write("mapheader", "view", m + 26, U16Bytes(NameListOffsetInMapOut(f))) >>

\* The count written for n entries: n - 1.
CountOut(n) == n - 1

TypeListWrites(f) ==
    LET start == MapOffsetOut(f) + TypeListOffsetInMapOut
    IN  << Write("typelist", "view", start, U16Bytes(CountOut(TypeCount(f)))) >>
        \o Concat([t \in 1..Len(f.resources) |->
            LET typePos == start + 2 + (t - 1) * 8
            IN  << Write("typelist", "set", typePos, TypeBytesOut(f.resources[t][1])),
                   Write("typelist", "view", typePos + 4,
                         U16Bytes(CountOut(Len(f.resources[t][2])))),
                   Write("typelist", "view", typePos + 6,
                         U16Bytes(ResourceListOffsetOut(f, t))) >>])

ResourceListWrites(f) ==
    LET rs == FlatResources(f)
        start == MapOffsetOut(f) + TypeListOffsetInMapOut + TypeListSize(f)
    IN  Concat([i \in 1..Len(rs) |->
            LET entryPos == start + (i - 1) * 12
                r == rs[i].res
            IN  << Write("reslist", "view", entryPos, U16Bytes(r.id)),
                   Write("reslist", "view", entryPos + 2,
                         U16Bytes(IF HasName(r) THEN NameOffsetOut(f, i) ELSE 65535)),
                   Write("reslist", "view", entryPos + 4,
                         PackedAttrBytes(r.flags, RecordOffset(f, i))),
                   Write("reslist", "view", entryPos + 8, PairBytes(r.junk)) >>])

\* The name list: namePos advances by the encoded length of each name.
RECURSIVE NameWritesFrom(_, _)
NameWritesFrom(names, namePos) ==
    IF names = <<>> THEN <<>>
    ELSE LET nameBytes == TextEncode(Head(names))
         IN  << Write("namelist", "index", namePos, <<Len(Head(names)) % 256>>),
                Write("namelist", "set", namePos + 1, nameBytes) >>
             \o NameWritesFrom(Tail(names), namePos + 1 + Len(nameBytes))

NameData(f) ==
    LET rs == FlatResources(f)
    IN  Concat([i \in 1..Len(rs) |->
            IF HasName(rs[i].res) THEN <<rs[i].res.name[1]>> ELSE <<>>])

NameListWrites(f) ==
    NameWritesFrom(NameData(f), MapOffsetOut(f) + NameListOffsetInMapOut(f))

\* Every store of toBytes, in program order.
Writes(f) ==
    HeaderWrites(f) \o DataWrites(f) \o MapHeaderWrites(f) \o TypeListWrites(f)
        \o ResourceListWrites(f) \o NameListWrites(f)

WriteFits(w, size) == w.at >= 0 /\ w.at + Len(w.bytes) <= size

\* The buffer after the stores ws, or the RangeError the first bad store throws.
RECURSIVE ApplyWrites(_, _)
ApplyWrites(bytes, ws) ==
    IF ws = <<>> THEN [err |-> "", bytes |-> bytes]
    ELSE LET w == Head(ws)
         IN  IF ~WriteFits(w, Len(bytes))
             THEN IF w.how = "index" THEN ApplyWrites(bytes, Tail(ws))
                  ELSE [err |-> "RangeError", bytes |-> <<>>]
             ELSE ApplyWrites(
                    [i \in 1..Len(bytes) |->
                        IF i > w.at /\ i <= w.at + Len(w.bytes)
                        THEN w.bytes[i - w.at] ELSE bytes[i]],
                    Tail(ws))

\* ResourceForkParser.toBytes(fork): err is "" and bytes the buffer, or the error.
toBytes(f) == ApplyWrites(Repeat(0, TotalSize(f)), Writes(f))

(***************************************************************************)
(* Container codec: ResourceForkParser.fromBytes.                          *)
(***************************************************************************)
EmptyFork ==
    [resources |-> <<>>, fileAttributes |-> 0, junkNextresmap |-> Zero32,
     junkFilerefnum |-> 0]

Decoded(f) == [err |-> "", fork |-> f]
DecodeError(e) == [err |-> e, fork |-> EmptyFork]

\* new TextDecoder('latin1').decode(bytes): one character per byte.  (Bytes
\* 0x80..0x9F depend on the runtime's reading of the label; the scenarios
\* keep name bytes outside that range.)
Latin1Decode(bytes) == bytes

\* Mutant of HeaderIsNonsense: the map section's length is left out of the check.
HeaderIsNonsense_NoMapLength(data) ==
    \/ PairGtNat(PairAdd(GetU32(data, 0), GetU32(data, 8)), Len(data))
    \/ PairGtNat(GetU32(data, 4), Len(data))

\* The header check: either section's offset + length exceeds the buffer.
HeaderIsNonsense(data) ==
    \/ PairGtNat(PairAdd(GetU32(data, 0), GetU32(data, 8)), Len(data))
    \/ PairGtNat(PairAdd(GetU32(data, 4), GetU32(data, 12)), Len(data))

\* Mutant of RecordVerdict: the length is compared without the record's offset.
RecordVerdict_NoOffset(data, actualDataOffset) ==
    IF actualDataOffset + 4 > Len(data) THEN "offset"
    ELSE IF PairGtNat(GetU32(data, actualDataOffset), Len(data))
    THEN "length"
    ELSE "ok"

\* What the resource loop does with an entry whose record starts at
\* actualDataOffset: "offset" and "length" are the two skips.
RecordVerdict(data, actualDataOffset) ==
    IF actualDataOffset + 4 > Len(data) THEN "offset"
    ELSE IF PairGtNat(GetU32(data, actualDataOffset), Len(data) - actualDataOffset - 4)
    THEN "length"
    ELSE "ok"

\* The name of an entry: undefined for 0xFFFF, and for a name that does not
\* lie inside the map section.  mapLength is the pair read from the header.
ReadName(data, mapOffset, mapLength, nameListOffsetInMap, nameOffset) ==
    LET namePos == nameListOffsetInMap + nameOffset
        nameLength == GetU8(data, mapOffset + namePos)
    IN  IF nameOffset = 65535 THEN Undefined
        ELSE IF ~PairGtNat(mapLength, namePos) THEN Undefined
        ELSE IF ~PairGeNat(mapLength, namePos + 1 + nameLength) THEN Undefined
        ELSE Some(Latin1Decode(
                SubSeq(data, mapOffset + namePos + 2, mapOffset + namePos + 1 + nameLength)))

\* The count read from a stored value: the value + 1.
CountIn(stored) == stored + 1

\* The resource loop of one type, from entry j (counted from 0) on: the
\* type's Map, or the RangeError of a read past the buffer.  c holds the
\* header values.
RECURSIVE ReadResources(_, _, _, _, _, _, _)
ReadResources(data, c, typeName, resourceCount, j, resPos, typeResources) ==
    IF ~(j < resourceCount) THEN [err |-> "", map |-> typeResources]
    ELSE IF ~InRange(data, c.mapOffset + resPos, 12)
    THEN [err |-> "RangeError", map |-> <<>>]
    ELSE LET at == c.mapOffset + resPos
             id == GetI16(data, at)
             nameOffset == GetU16(data, at + 2)
             flags == GetU8(data, at + 4)
             resourceDataOffset ==
                 GetU8(data, at + 5) * 65536 + GetU8(data, at + 6) * 256 + GetU8(data, at + 7)
             junk == GetU32(data, at + 8)
             actualDataOffset == c.dataOffset + resourceDataOffset
             verdict == RecordVerdict(data, actualDataOffset)
             resourceDataLength == PairToNat(GetU32(data, actualDataOffset))
             res == [type |-> typeName,
                     id |-> id,
                     data |-> SubSeq(data, actualDataOffset + 5,
                                     actualDataOffset + 4 + resourceDataLength),
                     name |-> ReadName(data, c.mapOffset, c.mapLength,
                                       c.nameListOffsetInMap, nameOffset),
                     flags |-> flags,
                     junk |-> junk,
                     order |-> OrderSentinel]
         IN  IF verdict # "ok"
             THEN ReadResources(data, c, typeName, resourceCount, j + 1, resPos + 12,
                                typeResources)
             ELSE IF ~InRange(data, actualDataOffset + 4, resourceDataLength)
             THEN [err |-> "RangeError", map |-> <<>>]
             ELSE ReadResources(data, c, typeName, resourceCount, j + 1, resPos + 12,
                                MapSet(typeResources, id, res))

\* The type loop from type i (counted from 0) on.
RECURSIVE ReadTypes(_, _, _, _, _, _)
ReadTypes(data, c, numTypes, i, pos, resources) ==
    IF ~(i < numTypes) THEN [err |-> "", map |-> resources]
    ELSE IF ~InRange(data, c.mapOffset + pos, 8)
    THEN [err |-> "RangeError", map |-> <<>>]
    ELSE LET at == c.mapOffset + pos
             typeName == sanitizeTypeName(SubSeq(data, at + 1, at + 4))
             resourceCount == CountIn(GetU16(data, at + 4))
             resourceListOffset == GetU16(data, at + 6)
             rr == ReadResources(data, c, typeName, resourceCount, 0,
                                 c.typeListOffsetInMap + resourceListOffset, <<>>)
         IN  IF rr.err # "" THEN [err |-> rr.err, map |-> <<>>]
             ELSE ReadTypes(data, c, numTypes, i + 1, pos + 8,
                            IF Len(rr.map) > 0 THEN MapSet(resources, typeName, rr.map)
                            ELSE resources)

\* The part of fromBytes after the header check.
ReadMap(data) ==
    LET dataOffset == PairToNat(GetU32(data, 0))
        mapOffset == PairToNat(GetU32(data, 4))
        mapLength == GetU32(data, 12)
        typeListOffsetInMap == GetU16(data, mapOffset + 24)
        c == [dataOffset |-> dataOffset, mapOffset |-> mapOffset, mapLength |-> mapLength,
              typeListOffsetInMap |-> typeListOffsetInMap,
              nameListOffsetInMap |-> GetU16(data, mapOffset + 26)]
        numTypes == CountIn(GetU16(data, mapOffset + typeListOffsetInMap))
        rt == ReadTypes(data, c, numTypes, 0, typeListOffsetInMap + 2, <<>>)
    IN  IF ~InRange(data, mapOffset + 16, 12) THEN DecodeError("RangeError")
        ELSE IF ~InRange(data, mapOffset + typeListOffsetInMap, 2)
        THEN DecodeError("RangeError")
        ELSE IF rt.err # "" THEN DecodeError(rt.err)
        ELSE Decoded([resources |-> rt.map,
                      fileAttributes |-> GetU16(data, mapOffset + 22),
                      junkNextresmap |-> GetU32(data, mapOffset + 16),
                      junkFilerefnum |-> GetU16(data, mapOffset + 20)])

\* ResourceForkParser.fromBytes(data): err is "" and fork the result, or the error.
fromBytes(data) ==
    IF Len(data) = 0 THEN Decoded(EmptyFork)
    ELSE IF Len(data) < 16
    THEN DecodeError("data is too small to contain a valid resource fork header")
    ELSE IF HeaderIsNonsense(data)
    THEN DecodeError("Invalid resource fork: offsets/lengths in header are nonsense")
    ELSE ReadMap(data)

(***************************************************************************)
(* Struct templates: compilation (structtemplate.ts, StructTemplateParser).*)
(* A template string is the sequence of its characters, each a one-letter  *)
(* string.  A layout field is [c |-> code, n |-> count]: the code letter,  *)
(* and for an "Ns" field the number N the code writes in front of it.      *)
(* A compiled name is Some(name), or Undefined for JavaScript's null.      *)
(***************************************************************************)
Digits == <<"0", "1", "2", "3", "4", "5", "6", "7", "8", "9">>
IsDigit(c) == \E d \in 1..10 : Digits[d] = c
DigitVal(c) == (CHOOSE d \in 1..10 : Digits[d] = c) - 1
IsSpace(c) == c \in {" ", "\t", "\n", "\r"}

\* parseInt of a run of digits
RECURSIVE ParseInt(_)
ParseInt(s) ==
    IF s = <<>> THEN 0
    ELSE 10 * ParseInt(SubSeq(s, 1, Len(s) - 1)) + DigitVal(s[Len(s)])

\* `${i}` for a non-negative integer
RECURSIVE DecString(_)
DecString(i) ==
    IF i < 10 THEN <<Digits[i + 1]>>
    ELSE DecString(i \div 10) \o <<Digits[(i % 10) + 1]>>

\* String.prototype.split(sep)
RECURSIVE Split(_, _)
Split(s, sep) ==
    IF \A i \in 1..Len(s) : s[i] # sep THEN <<s>>
    ELSE LET p == CHOOSE i \in 1..Len(s) :
                      s[i] = sep /\ \A j \in 1..(i - 1) : s[j] # sep
         IN  <<SubSeq(s, 1, p - 1)>> \o Split(SubSeq(s, p + 1, Len(s)), sep)

ByteOrderMarks == {"!", "@", "=", "<", ">"}

\* /[CB?HILFQD]/.test(c.toUpperCase()) || c === 'x'
IsFormatCode(c) ==
    c \in {"C", "c", "B", "b", "?", "H", "h", "I", "i", "L", "l",
           "F", "f", "Q", "q", "D", "d", "x"}

\* The loop shared by the two splitStructFormatFields functions, from
\* character i on with the repeat count read so far.  The instance method
\* (lenient = FALSE) skips byte-order marks anywhere and throws at a
\* character it does not know; the static one (lenient = TRUE) passes over
\* any character it does not know and keeps the repeat count.
RECURSIVE SplitFields(_, _, _, _)
SplitFields(fmt, i, repeat, lenient) ==
    IF i > Len(fmt) THEN [err |-> "", fields |-> <<>>]
    ELSE LET c == fmt[i]
             n == Max(repeat, 1)
             rest(r) == SplitFields(fmt, i + 1, r, lenient)
             emit(fs) == [err |-> rest(0).err, fields |-> fs \o rest(0).fields]
         IN  IF IsSpace(c) \/ (~lenient /\ c \in {"@", "!", ">", "<"})
                 THEN rest(repeat)
             ELSE IF IsDigit(c) THEN rest(repeat * 10 + DigitVal(c))
             ELSE IF IsFormatCode(c) THEN emit([j \in 1..n |-> [c |-> c, n |-> 1]])
             ELSE IF c = "s" THEN emit(<<[c |-> "s", n |-> n]>>)
             ELSE IF lenient THEN rest(repeat)
             ELSE [err |-> "Unsupported struct format character", fields |-> <<>>]

\* StructTemplateParser.prototype.splitStructFormatFields
splitStructFormatFields(fmt) == SplitFields(fmt, 1, 0, FALSE)

\* StructTemplateParser.splitStructFormatFields (static)
splitStructFormatFieldsStatic(fmt) ==
    LET cleanFmt == IF Len(fmt) > 0 /\ fmt[1] \in ByteOrderMarks
                    THEN Tail(fmt) ELSE fmt
    IN  SplitFields(cleanFmt, 1, 0, TRUE).fields

\* The width calculateRecordLength adds for one field; -1 where it throws.
FieldWidth(field) ==
    IF field.c = "s" THEN field.n
    ELSE IF field.c \in {"B", "b", "c", "x", "?"} THEN 1
    ELSE IF field.c \in {"H", "h"} THEN 2
    ELSE IF field.c \in {"I", "i", "L", "l", "f"} THEN 4
    ELSE IF field.c \in {"Q", "q", "d"} THEN 8
    ELSE -1

calculateRecordLength(fields) ==
    IF \E k \in 1..Len(fields) : FieldWidth(fields[k]) < 0
    THEN [err |-> "Unknown field type", length |-> 0]
    ELSE [err |-> "", length |-> SumSeq([k \in 1..Len(fields) |-> FieldWidth(fields[k])])]

\* The character U+0060, which cannot be written inside a string here.
Backtick == "backtick"

\* fieldName.match(/^(.+?)'(.+?)\[(\d+)\]$/), with the backtick written as
\* an apostrophe in this comment: the positions of the backtick
\* and of the opening bracket, or <<>> when the name does not match.  The
\* prefix is the shortest the pattern allows; the bracket is the one that
\* only digits and the closing bracket follow.
ArrayPattern(fieldName) ==
    LET n == Len(fieldName)
        Bracket(p) == {q \in (p + 2)..(n - 2) :
                          /\ fieldName[q] = "["
                          /\ \A d \in (q + 1)..(n - 1) : IsDigit(fieldName[d])}
        Ticks == {p \in 2..n : fieldName[p] = Backtick /\ Bracket(p) # {}}
    IN  IF n = 0 \/ fieldName[n] # "]" \/ Ticks = {} THEN <<>>
        ELSE LET p == CHOOSE t \in Ticks : \A u \in Ticks : t <= u
             IN  <<p, CHOOSE q \in Bracket(p) : TRUE>>

\* With one loop for each of the two names the expansion would be
\* A_0 .. A_(N-1), B_0 .. B_(N-1).
expandArrayFieldNames_Grouped(fieldName, startFieldIndex, fields) ==
    LET m == ArrayPattern(fieldName)
    IN  IF m = <<>> THEN <<Some(fieldName)>>
        ELSE LET prefix == SubSeq(fieldName, 1, m[1] - 1)
                 suffix == SubSeq(fieldName, m[1] + 1, m[2] - 1)
                 count == ParseInt(SubSeq(fieldName, m[2] + 1, Len(fieldName) - 1))
                 Run == {e \in startFieldIndex..Len(fields) :
                            \A k \in startFieldIndex..e : fields[k].c # "x"}
                 numPairs == Min(count, Cardinality(Run) \div 2)
             IN  [i \in 1..numPairs |-> Some(prefix \o <<"_">> \o DecString(i - 1))]
                 \o [i \in 1..numPairs |-> Some(suffix \o <<"_">> \o DecString(i - 1))]

expandArrayFieldNames(fieldName, startFieldIndex, fields) ==
    LET m == ArrayPattern(fieldName)
    IN  IF m = <<>> THEN <<Some(fieldName)>>
        ELSE LET prefix == SubSeq(fieldName, 1, m[1] - 1)
                 suffix == SubSeq(fieldName, m[1] + 1, m[2] - 1)
                 count == ParseInt(SubSeq(fieldName, m[2] + 1, Len(fieldName) - 1))
                 Run == {e \in startFieldIndex..Len(fields) :
                            \A k \in startFieldIndex..e : fields[k].c # "x"}
                 availableFields == Cardinality(Run)
                 numPairs == Min(count, availableFields \div 2)
             IN  Concat([i \in 1..numPairs |->
                     << Some(prefix \o <<"_">> \o DecString(i - 1)),
                        Some(suffix \o <<"_">> \o DecString(i - 1)) >>])

\* Mutant of ExpandFrom: without the second loop, which fills the fields
\* left over when the names have run out.
RECURSIVE ExpandFrom_NoFill(_, _, _, _)
ExpandFrom_NoFill(fields, names, fieldIndex, fieldNameIndex) ==
    IF fieldIndex > Len(fields) \/ fieldNameIndex > Len(names) THEN <<>>
    ELSE IF fields[fieldIndex].c = "x"
        THEN <<Undefined>> \o ExpandFrom_NoFill(fields, names, fieldIndex + 1, fieldNameIndex)
    ELSE LET fieldName == names[fieldNameIndex]
             Has(ch) == \E k \in 1..Len(fieldName) : fieldName[k] = ch
             expandedNames == expandArrayFieldNames(fieldName, fieldIndex, fields)
         IN  IF Has("[") /\ Has("]")
             THEN expandedNames \o ExpandFrom_NoFill(fields, names,
                      fieldIndex + Len(expandedNames), fieldNameIndex + 1)
             ELSE <<IF fieldName = <<>> THEN Undefined ELSE Some(fieldName)>>
                  \o ExpandFrom_NoFill(fields, names, fieldIndex + 1, fieldNameIndex + 1)

\* The two loops of expandFieldNames, from layout field fieldIndex and name
\* fieldNameIndex on (both counted from 1 here).
RECURSIVE ExpandFrom(_, _, _, _)
ExpandFrom(fields, names, fieldIndex, fieldNameIndex) ==
    IF fieldIndex > Len(fields) THEN <<>>
    ELSE IF fieldNameIndex > Len(names)
        THEN [k \in 1..(Len(fields) - fieldIndex + 1) |-> Undefined]
    ELSE IF fields[fieldIndex].c = "x"
        THEN <<Undefined>> \o ExpandFrom(fields, names, fieldIndex + 1, fieldNameIndex)
    ELSE LET fieldName == names[fieldNameIndex]
             Has(ch) == \E k \in 1..Len(fieldName) : fieldName[k] = ch
             expandedNames == expandArrayFieldNames(fieldName, fieldIndex, fields)
         IN  IF Has("[") /\ Has("]")
             THEN expandedNames \o ExpandFrom(fields, names,
                      fieldIndex + Len(expandedNames), fieldNameIndex + 1)
             ELSE <<IF fieldName = <<>> THEN Undefined ELSE Some(fieldName)>>
                  \o ExpandFrom(fields, names, fieldIndex + 1, fieldNameIndex + 1)

\* Without the test for padding the names would be bound to the layout's
\* positions one after another.
expandFieldNames_BindPadding(fields, names) ==
    [k \in 1..Len(fields) |->
        IF k <= Len(names) /\ names[k] # <<>> THEN Some(names[k]) ELSE Undefined]

expandFieldNames(fields, names) == ExpandFrom(fields, names, 1, 1)

CompileError(e) ==
    [err |-> e, format |-> <<>>, fieldNames |-> <<>>, isList |-> FALSE, recordLength |-> 0]

\* constructor(formatStr, fieldNames)
StructTemplateParser(formatStr, fieldNames) ==
    LET isList == Len(formatStr) > 0 /\ formatStr[Len(formatStr)] = "+"
        body == IF isList THEN SubSeq(formatStr, 1, Len(formatStr) - 1) ELSE formatStr
    IN  [formatStr |-> IF Len(body) > 0 /\ body[1] \in ByteOrderMarks
                       THEN body ELSE <<">">> \o body,
         fieldNames |-> fieldNames,
         isList |-> isList]

build(parser) ==
    LET fieldFormats == splitStructFormatFields(parser.formatStr)
        recordLength == calculateRecordLength(fieldFormats.fields)
    IN  IF fieldFormats.err # "" THEN CompileError(fieldFormats.err)
        ELSE IF recordLength.err # "" THEN CompileError(recordLength.err)
        ELSE [err |-> "",
              format |-> parser.formatStr,
              fieldNames |-> expandFieldNames(fieldFormats.fields, parser.fieldNames),
              isList |-> parser.isList,
              recordLength |-> recordLength.length]

fromTemplateString(tpl) ==
    LET pieces == Split(tpl, ":")
        split == SubSeq(pieces, 1, Min(3, Len(pieces)))
        formatStr == split[1]
        fieldNames == IF Len(split) > 1 THEN Split(split[2], ",") ELSE <<>>
    IN  IF formatStr = <<>> THEN CompileError("Empty format string")
        ELSE build(StructTemplateParser(formatStr, fieldNames))

(***************************************************************************)
(* Struct templates: values.  A JavaScript value is [t |-> type, v |-> _]: *)
(* "number" with an integer, "string" with character codes, "object" with  *)
(* a Map from property names to values, "array" with a sequence of values, *)
(* "null" and "undefined".  The number of a 4-byte field ("number32"), of  *)
(* a float or double field ("float") and the BigInt of an 8-byte field     *)
(* ("bigint") are carried as the bytes DataView read them from: the        *)
(* DataView setter of the same field writes those bytes back.              *)
(***************************************************************************)
JS(t, v) == [t |-> t, v |-> v]
JSNull == JS("null", 0)
JSUndefined == JS("undefined", 0)

\* A float or double that is +0, -0 or NaN, from its big-endian bytes.
IsZeroOrNaN(b) ==
    LET rest == {b[k] : k \in 2..Len(b)}
    IN  \/ b[1] \in {0, 128} /\ rest \subseteq {0}
        \/ /\ b[1] % 128 = 127
           /\ IF Len(b) = 4 THEN b[2] >= 128 /\ (b[2] # 128 \/ b[3] # 0 \/ b[4] # 0)
              ELSE b[2] >= 240 /\ (b[2] # 240 \/ {b[k] : k \in 3..8} # {0})

\* !value
Falsy(val) ==
    CASE val.t \in {"null", "undefined"} -> TRUE
      [] val.t = "number" -> val.v = 0
      [] val.t = "string" -> val.v = <<>>
      [] val.t \in {"number32", "bigint"} -> \A k \in 1..Len(val.v) : val.v[k] = 0
      [] val.t = "float" -> IsZeroOrNaN(val.v)
      [] OTHER -> FALSE

\* new TextDecoder('utf-8').decode(bytes) for bytes below 0xE0: one- and
\* two-byte sequences, U+FFFD for every byte that starts neither.
RECURSIVE Utf8Decode(_)
Utf8Decode(b) ==
    IF b = <<>> THEN <<>>
    ELSE IF b[1] < 128 THEN <<b[1]>> \o Utf8Decode(Tail(b))
    ELSE IF b[1] >= 194 /\ b[1] <= 223 /\ Len(b) >= 2 /\ b[2] >= 128 /\ b[2] <= 191
        THEN <<(b[1] - 192) * 64 + (b[2] - 128)>> \o Utf8Decode(SubSeq(b, 3, Len(b)))
    ELSE <<65533>> \o Utf8Decode(Tail(b))

\* One case of unpackRecord's switch: the value pushed for the field whose
\* bytes start at position pos of data.
ReadField(data, pos, field) ==
    LET bytes == SubSeq(data, pos + 1, pos + FieldWidth(field))
    IN  CASE field.c \in {"B", "?"} -> JS("number", GetU8(data, pos))
          [] field.c = "b" -> JS("number", LET u == GetU8(data, pos)
                                           IN IF u >= 128 THEN u - 256 ELSE u)
          [] field.c = "H" -> JS("number", GetU16(data, pos))
          [] field.c = "h" -> JS("number", GetI16(data, pos))
          [] field.c \in {"I", "L", "i", "l"} -> JS("number32", bytes)
          [] field.c \in {"f", "d"} -> JS("float", bytes)
          [] field.c \in {"Q", "q"} -> JS("bigint", bytes)
          [] field.c = "x" -> JSNull
          [] field.c = "s" -> JS("string", Utf8Decode(bytes))

\* tagValues(values, template)
RECURSIVE TagFrom(_, _, _, _)
TagFrom(values, fieldNames, i, result) ==
    IF i > Len(values) \/ i > Len(fieldNames) THEN result
    ELSE TagFrom(values, fieldNames, i + 1,
                 IF fieldNames[i] = Undefined THEN result
                 ELSE MapSet(result, fieldNames[i][1], values[i]))

tagValues(values, tpl) ==
    IF Len(tpl.fieldNames) = 1 /\ tpl.fieldNames[1] = Undefined
    THEN IF Len(values) > 0 THEN values[1] ELSE JSUndefined
    ELSE JS("object", TagFrom(values, tpl.fieldNames, 1, <<>>))

\* unpackRecord(data, offset, template): [err, val].  The DataView starts at
\* offset and a read past the end of the buffer throws RangeError.
unpackRecord(data, offset, tpl) ==
    LET fields == splitStructFormatFieldsStatic(tpl.format)
        pos(k) == offset + SumSeq([j \in 1..(k - 1) |-> Max(FieldWidth(fields[j]), 0)])
        Bad == {k \in 1..Len(fields) :
                   FieldWidth(fields[k]) < 0 \/ fields[k].c = "c"
                   \/ ~InRange(data, pos(k), FieldWidth(fields[k]))}
        first == CHOOSE k \in Bad : \A j \in Bad : k <= j
    IN  IF Bad # {}
        THEN [err |-> IF FieldWidth(fields[first]) < 0 \/ fields[first].c = "c"
                      THEN "Unknown field type" ELSE "RangeError",
              val |-> JSUndefined]
        ELSE [err |-> "",
              val |-> tagValues([k \in 1..Len(fields) |-> ReadField(data, pos(k), fields[k])], tpl)]

(***************************************************************************)
(* Struct templates: the converter (resconverters.ts, StructConverter).    *)
(* An outcome is [err, val, about]: err is "" when the call returns and    *)
(* otherwise tells which throw ended it; about is what the message of the  *)
(* length error names.                                                     *)
(***************************************************************************)
Threw(e) == [err |-> e, val |-> JSUndefined, about |-> <<>>]

\* The condition under which StructConverter.unpack throws its length
\* error.  In array mode the test is length % recordLength !== 0, and the
\* remainder by 0 is NaN, which differs from 0.
LengthMismatch(res, tpl) ==
    IF tpl.isList
    THEN tpl.recordLength = 0 \/ Len(res.data) % tpl.recordLength # 0
    ELSE Len(res.data) # tpl.recordLength

StructConverter_unpack(res, tpl) ==
    IF LengthMismatch(res, tpl)
    THEN [err |-> "length", val |-> JSUndefined,
          about |-> <<res.type, res.id, Len(res.data), tpl.recordLength>>]
    ELSE IF tpl.isList
    THEN LET numRecords == Len(res.data) \div tpl.recordLength
             record(i) == unpackRecord(res.data, (i - 1) * tpl.recordLength, tpl)
             Bad == {i \in 1..numRecords : record(i).err # ""}
         IN  IF Bad # {}
             THEN Threw(record(CHOOSE i \in Bad : \A j \in Bad : i <= j).err)
             ELSE [err |-> "", about |-> <<>>,
                   val |-> JS("array", [i \in 1..numRecords |-> record(i).val])]
    ELSE LET r == unpackRecord(res.data, 0, tpl)
         IN  [err |-> r.err, val |-> r.val, about |-> <<>>]

\* The two's-complement bytes, n of them, of an integer.
RECURSIVE IntBytes(_, _)
IntBytes(v, n) ==
    IF n = 0 THEN <<>>
    ELSE IF v < 0 THEN [k \in 1..n |-> 255 - IntBytes(-v - 1, n)[k]]
    ELSE IntBytes(v \div 256, n - 1) \o <<v % 256>>

\* Number.prototype.toString() of an integer, as character codes.
RECURSIVE NumberString(_)
NumberString(v) ==
    IF v < 0 THEN <<45>> \o NumberString(-v)
    ELSE IF v < 10 THEN <<48 + v>>
    ELSE NumberString(v \div 10) \o <<48 + (v % 10)>>

\* obj[fieldName] of packRecord: [err, val].  Reading a property of null or
\* undefined throws TypeError; a number, a string or an array has none of
\* the names a template binds.
GetProp(obj, fieldName) ==
    IF obj.t \in {"null", "undefined"} THEN [err |-> "TypeError", val |-> JSUndefined]
    ELSE IF obj.t = "object" /\ MapHas(obj.v, fieldName)
        THEN [err |-> "", val |-> MapGet(obj.v, fieldName)]
    ELSE [err |-> "", val |-> JSUndefined]

\* The bytes a DataView integer setter of the given width stores for
\* value || 0: ToNumber, then the low bytes.  A string that is not a
\* numeral converts to NaN, which is stored as 0.
StoreInt(val, width) ==
    CASE Falsy(val) -> Repeat(0, width)
      [] val.t = "number" -> IntBytes(val.v, width)
      [] val.t = "number32" /\ width <= 4 -> SubSeq(val.v, 5 - width, 4)
      [] val.t = "string" /\ (\E k \in 1..Len(val.v) : val.v[k] < 48 \/ val.v[k] > 57)
           -> Repeat(0, width)

\* One case of packRecord's switch: the bytes written for the field.
WriteField(field, val) ==
    CASE field.c \in {"B", "b", "H", "h", "I", "L", "i", "l"}
           -> StoreInt(val, FieldWidth(field))
      [] field.c \in {"f", "d"} /\ Falsy(val) -> Repeat(0, FieldWidth(field))
      [] field.c \in {"f", "d"} /\ val.t = "float" /\ Len(val.v) = FieldWidth(field)
           -> val.v
      [] field.c \in {"Q", "q"} /\ Falsy(val) -> Repeat(0, 8)
      [] field.c \in {"Q", "q"} /\ val.t = "bigint" -> val.v
      [] field.c \in {"Q", "q"} /\ val.t = "number" -> IntBytes(val.v, 8)
      [] field.c = "x" -> <<0>>
      [] field.c = "?" -> IF Falsy(val) THEN <<0>> ELSE <<1>>
      [] field.c = "s" /\ (Falsy(val) \/ val.t \in {"string", "number"})
           -> LET str == IF Falsy(val) THEN <<>>
                         ELSE IF val.t = "string" THEN val.v
                         ELSE NumberString(val.v)
                  encoded == TextEncode(str)
                  toCopy == Min(Len(encoded), field.n)
              IN  SubSeq(encoded, 1, toCopy) \o Repeat(0, field.n - toCopy)

\* packRecord(obj, template): [err, bytes].  fieldIndex, the index into
\* template.fieldNames, advances only past non-padding fields.
packRecord(obj, tpl) ==
    LET fields == splitStructFormatFieldsStatic(tpl.format)
        fieldIndex(k) == Cardinality({j \in 1..(k - 1) : fields[j].c # "x"})
        Named(k) == fieldIndex(k) < Len(tpl.fieldNames)
                    /\ tpl.fieldNames[fieldIndex(k) + 1] # Undefined
        prop(k) == GetProp(obj, tpl.fieldNames[fieldIndex(k) + 1][1])
        value(k) == IF Named(k) THEN prop(k).val ELSE JSUndefined
        Unknown(k) == FieldWidth(fields[k]) < 0 \/ fields[k].c = "c"
        Bad == {k \in 1..Len(fields) : Unknown(k) \/ (Named(k) /\ prop(k).err # "")}
        first == CHOOSE k \in Bad : \A j \in Bad : k <= j
    IN  IF Bad # {}
        THEN [err |-> IF Named(first) /\ prop(first).err # "" THEN prop(first).err
                      ELSE "Unknown field type",
              bytes |-> <<>>]
        ELSE [err |-> "",
              bytes |-> Concat([k \in 1..Len(fields) |-> WriteField(fields[k], value(k))])]

\* StructConverter.pack(obj): [err, bytes]
StructConverter_pack(obj, tpl) ==
    IF tpl.isList
    THEN IF obj.t # "array" THEN [err |-> "Expected array for list struct", bytes |-> <<>>]
         ELSE LET record(i) == packRecord(obj.v[i], tpl)
                  Bad == {i \in 1..Len(obj.v) : record(i).err # ""}
              IN  IF Bad # {}
                  THEN [err |-> record(CHOOSE i \in Bad : \A j \in Bad : i <= j).err,
                        bytes |-> <<>>]
                  ELSE [err |-> "",
                        bytes |-> Concat([i \in 1..Len(obj.v) |-> record(i).bytes])]
    ELSE packRecord(obj, tpl)

(***************************************************************************)
(* Raw-hex converter (resconverters.ts, Base16Converter) and the hex       *)
(* branch of jsonToResourceFork.                                           *)
(***************************************************************************)
\* byte.toString(16).padStart(2, '0')
Base16Byte_NoPad(byte) ==
    IF byte < 16 THEN <<HexDigitLower(byte)>>
    ELSE <<HexDigitLower(byte \div 16), HexDigitLower(byte % 16)>>

Base16Byte(byte) ==
    IF byte < 16 THEN <<48, HexDigitLower(byte)>>
    ELSE <<HexDigitLower(byte \div 16), HexDigitLower(byte % 16)>>

\* Base16Converter.unpack(resource)
Base16Converter_unpack(res) ==
    LET joined == Concat([i \in 1..Len(res.data) |-> Base16Byte(res.data[i])])
    IN  [i \in 1..Len(joined) |-> ToUpperCase(joined[i])]

\* parseInt(str.substr(i, 2), 16) stored into a Uint8Array: the value of
\* the leading hexadecimal digits, and 0 for NaN when there is none.
StoredHexPair(str, i) ==
    IF i + 1 > Len(str) \/ ~IsHexChar(str[i + 1]) THEN 0
    ELSE IF i + 2 > Len(str) \/ ~IsHexChar(str[i + 2]) THEN HexVal(str[i + 1])
    ELSE HexVal(str[i + 1]) * 16 + HexVal(str[i + 2])

\* The loop that Base16Converter.pack and the hex branch of
\* jsonToResourceFork both run over a string of hexadecimal digits.
HexToBytes(hexStr) == [k \in 1..(Len(hexStr) \div 2) |-> StoredHexPair(hexStr, 2 * (k - 1))]

\* Base16Converter.pack(obj): [err, bytes]
Base16Converter_pack(obj) ==
    IF obj.t # "string" THEN [err |-> "Expected string for base16 data", bytes |-> <<>>]
    ELSE [err |-> "", bytes |-> HexToBytes(obj.v)]

(***************************************************************************)
(* Structured text (jsonio.ts).  A JavaScript object is the Map of its     *)
(* properties.  The document is kept as the tree JSON.parse returns for    *)
(* the text JSON.stringify wrote.  A registry entry is [kind, tpl]: a      *)
(* StructConverter with its template, or a registered Base16Converter.     *)
(* The calls are the ones without type filters.                            *)
(***************************************************************************)
MetadataKey == <<95, 109, 101, 116, 97, 100, 97, 116, 97>>

\* Whether JSON.stringify throws on a value: it does on a BigInt.
RECURSIVE JsonThrows(_)
JsonThrows(val) ==
    CASE val.t = "bigint" -> TRUE
      [] val.t = "array" -> \E i \in 1..Len(val.v) : JsonThrows(val.v[i])
      [] val.t = "object" -> \E i \in 1..Len(val.v) : JsonThrows(val.v[i][2])
      [] OTHER -> FALSE

\* JSON.parse(JSON.stringify(value)) for a value stringify accepts: NaN and
\* the infinities come back as null, -0 as 0, undefined as null inside an
\* array, and a property whose value is undefined is gone.
RECURSIVE JsonValue(_)
JsonValue(val) ==
    CASE val.t = "undefined" -> JSNull
      [] val.t = "float" /\ val.v[1] % 128 = 127
                         /\ val.v[2] >= (IF Len(val.v) = 4 THEN 128 ELSE 240) -> JSNull
      [] val.t = "float" /\ IsZeroOrNaN(val.v) -> JS("float", Repeat(0, Len(val.v)))
      [] val.t = "array" -> JS("array", [i \in 1..Len(val.v) |-> JsonValue(val.v[i])])
      [] val.t = "object" ->
           LET kept == SelectSeq(val.v, LAMBDA e : e[2].t # "undefined")
           IN  JS("object", [i \in 1..Len(kept) |-> <<kept[i][1], JsonValue(kept[i][2])>>])
      [] OTHER -> val

\* parseInt(idStr, 10) of a decimal numeral with an optional minus sign
RECURSIVE ParseId(_)
ParseId(idStr) ==
    IF idStr = <<>> THEN 0
    ELSE IF idStr[1] = 45 THEN -ParseId(Tail(idStr))
    ELSE 10 * ParseId(SubSeq(idStr, 1, Len(idStr) - 1)) + (idStr[Len(idStr)] - 48)

\* Whether a property key is an array index: a decimal numeral without a
\* sign or a leading zero.  (The keys of the scenarios stay below 2^31.)
IsArrayIndex(key) ==
    /\ Len(key) > 0
    /\ \A k \in 1..Len(key) : key[k] >= 48 /\ key[k] <= 57
    /\ (Len(key) > 1 => key[1] # 48)

\* The order in which Object.entries visits an object's properties: array
\* indices first, ascending, then the other keys in insertion order.
ObjectEntries(m) ==
    LET idx == SelectSeq(m, LAMBDA e : IsArrayIndex(e[1]))
        rank(i) == Cardinality({j \in 1..Len(idx) : ParseId(idx[j][1]) < ParseId(idx[i][1])}) + 1
    IN  [r \in 1..Len(idx) |-> idx[CHOOSE i \in 1..Len(idx) : rank(i) = r]]
        \o SelectSeq(m, LAMBDA e : ~IsArrayIndex(e[1]))

Base16 == [kind |-> "base16", tpl |-> CompileError("none")]

\* converters.get(typeName) || new Base16Converter()
ConverterFor(convs, typeName) ==
    IF MapHas(convs, typeName) THEN MapGet(convs, typeName) ELSE Base16

\* converter.unpack(resource, fork) for a registry entry: [err, val, about]
ConverterUnpack(converter, res) ==
    IF converter.kind = "base16"
    THEN [err |-> "", val |-> JS("string", Base16Converter_unpack(res)), about |-> <<>>]
    ELSE StructConverter_unpack(res, converter.tpl)

\* The try/catch of resourceForkToJson for the outcome u of the converter's
\* unpack: the obj, data and conversionError properties of the entry.
\* Without the catch the converter's exception would end the call.
ConvertData_NoCatch(converter, res, u) ==
    IF converter.kind = "base16"
    THEN [threw |-> "", obj |-> Undefined, data |-> Some(u.val.v),
          conversionError |-> Undefined]
    ELSE [threw |-> u.err, obj |-> Some(u.val), data |-> Undefined,
          conversionError |-> Undefined]

\* Without the fall-back in the catch the entry of a resource that failed
\* to convert would hold the error alone.
ConvertData_NoFallback(converter, res, u) ==
    IF u.err # ""
    THEN [threw |-> "", obj |-> Undefined, data |-> Undefined,
          conversionError |-> Some(u.err)]
    ELSE IF converter.kind = "base16"
    THEN [threw |-> "", obj |-> Undefined, data |-> Some(u.val.v),
          conversionError |-> Undefined]
    ELSE [threw |-> "", obj |-> Some(u.val), data |-> Undefined,
          conversionError |-> Undefined]

ConvertData(converter, res, u) ==
    IF u.err # ""
    THEN [threw |-> "", obj |-> Undefined, data |-> Some(Base16Converter_unpack(res)),
          conversionError |-> Some(u.err)]
    ELSE IF converter.kind = "base16"
    THEN [threw |-> "", obj |-> Undefined, data |-> Some(u.val.v),
          conversionError |-> Undefined]
    ELSE [threw |-> "", obj |-> Some(u.val), data |-> Undefined,
          conversionError |-> Undefined]

\* The entry resourceForkToJson writes for one resource, as it reads back
\* from the text (a property set to undefined is not written), and what
\* the call throws on account of this resource ("" when nothing).
Wrapper(typeName, res, convs) ==
    LET Entry(c) ==
            [threw |-> IF c.threw # "" THEN c.threw
                       ELSE IF IsDefined(c.obj) /\ JsonThrows(c.obj[1]) THEN "TypeError"
                       ELSE "",
             entry |->
                [name |-> IF HasName(res) THEN res.name ELSE Undefined,
                 flags |-> IF res.flags # 0 THEN Some(res.flags) ELSE Undefined,
                 junk |-> IF ~PairIsZero(res.junk) THEN Some(res.junk) ELSE Undefined,
                 order |-> IF ~PairIsZero(res.order) /\ res.order # OrderSentinel
                           THEN Some(res.order) ELSE Undefined,
                 obj |-> IF IsDefined(c.obj) /\ c.obj[1].t # "undefined"
                         THEN Some(JsonValue(c.obj[1])) ELSE Undefined,
                 data |-> c.data,
                 conversionError |-> c.conversionError]]
        Convert(converter) == Entry(ConvertData(converter, res, ConverterUnpack(converter, res)))
    IN  Convert(ConverterFor(convs, typeName))

\* The end of resourceForkToJson, given the entries ws[t][j] of the
\* resources: JSON.stringify throws, or the document is returned.
\* No type key of the scenarios is "_metadata".
Document(f, ws) ==
    LET metadata == << <<"junk1", f.junkNextresmap>>, <<"junk2", f.junkFilerefnum>>,
                       <<"file_attributes", f.fileAttributes>> >>
        Bad == {x \in UNION {{<<t, j>> : j \in 1..Len(ws[t])} : t \in 1..Len(ws)} :
                   ws[x[1]][x[2]].threw # ""}
        first == CHOOSE x \in Bad : \A y \in Bad :
                     x[1] < y[1] \/ (x[1] = y[1] /\ x[2] <= y[2])
    IN  IF Bad # {} THEN [err |-> ws[first[1]][first[2]].threw, doc |-> <<>>]
        ELSE [err |-> "",
              doc |-> <<<<MetadataKey, metadata>>>> \o
                  [t \in 1..Len(f.resources) |->
                      << f.resources[t][1],
                         [j \in 1..Len(f.resources[t][2]) |->
                             <<NumberString(f.resources[t][2][j][1]), ws[t][j].entry>>] >>]]

\* resourceForkToJson(fork, [], [], converters): [err, doc]
resourceForkToJson(f, convs) ==
    Document(f, [t \in 1..Len(f.resources) |->
                    [j \in 1..Len(f.resources[t][2]) |->
                        Wrapper(f.resources[t][1], f.resources[t][2][j][2], convs)]])

\* converter.pack(resourceData.obj) for a registry entry: [err, bytes]
ConverterPack(converter, obj) ==
    IF converter.kind = "base16" THEN Base16Converter_pack(obj)
    ELSE StructConverter_pack(obj, converter.tpl)

\* A registered converter that implements unpack only (pack is optional in
\* the ResourceConverter interface).
UnpackOnly == [kind |-> "unpackOnly", tpl |-> CompileError("none")]

\* converter && converter.pack
HasPack(convs, typeName) ==
    MapHas(convs, typeName) /\ MapGet(convs, typeName).kind # "unpackOnly"

\* The body of jsonToResourceFork's inner loop for one entry: [err, res].
\* Without the test of the converter an entry with obj and no inverse
\* would be restored with no bytes.
RestoreEntry_NoInverseTest(typeName, idStr, resourceData, convs) ==
    LET Resource(data) ==
            [err |-> data.err,
             res |-> [type |-> typeName,
                      id |-> ParseId(idStr),
                      data |-> data.bytes,
                      name |-> resourceData.name,
                      flags |-> IF IsDefined(resourceData.flags)
                                THEN resourceData.flags[1] ELSE 0,
                      junk |-> IF IsDefined(resourceData.junk)
                               THEN resourceData.junk[1] ELSE Zero32,
                      order |-> IF IsDefined(resourceData.order)
                                THEN resourceData.order[1] ELSE OrderSentinel]]
    IN  Resource(IF IsDefined(resourceData.obj) /\ HasPack(convs, typeName)
                 THEN ConverterPack(MapGet(convs, typeName), resourceData.obj[1])
                 ELSE IF IsDefined(resourceData.data)
                 THEN [err |-> "", bytes |-> HexToBytes(resourceData.data[1])]
                 ELSE [err |-> "", bytes |-> <<>>])

RestoreEntry(typeName, idStr, resourceData, convs) ==
    LET Resource(data) ==
            [err |-> data.err,
             res |-> [type |-> typeName,
                      id |-> ParseId(idStr),
                      data |-> data.bytes,
                      name |-> resourceData.name,
                      flags |-> IF IsDefined(resourceData.flags)
                                THEN resourceData.flags[1] ELSE 0,
                      junk |-> IF IsDefined(resourceData.junk)
                               THEN resourceData.junk[1] ELSE Zero32,
                      order |-> IF IsDefined(resourceData.order)
                                THEN resourceData.order[1] ELSE OrderSentinel]]
    IN  Resource(IF IsDefined(resourceData.obj)
                 THEN IF HasPack(convs, typeName)
                      THEN ConverterPack(MapGet(convs, typeName), resourceData.obj[1])
                      ELSE [err |-> "No pack function available", bytes |-> <<>>]
                 ELSE IF IsDefined(resourceData.data)
                 THEN [err |-> "", bytes |-> HexToBytes(resourceData.data[1])]
                 ELSE [err |-> "neither obj nor data", bytes |-> <<>>])

\* typeResources.set(id, resource) and resources.set(typeName, typeResources)
\* for the restored resources, in the order the loops visit them.
RECURSIVE AddAll(_, _)
AddAll(resources, rs) ==
    IF rs = <<>> THEN resources
    ELSE AddAll(AddResource(resources, Head(rs)), Tail(rs))

\* metadata.key || 0
MetadataOr(metadata, key, zero) ==
    IF MapHas(metadata, key) THEN MapGet(metadata, key) ELSE zero

\* The end of jsonToResourceFork, given the outcomes of the loop body in
\* the order the loops run it: the first throw, or the fork.
Restored(metadata, all) ==
    LET Bad == {i \in 1..Len(all) : all[i].err # ""}
    IN  IF Bad # {}
        THEN [err |-> all[CHOOSE i \in Bad : \A j \in Bad : i <= j].err, fork |-> EmptyFork]
        ELSE [err |-> "",
              fork |-> [resources |-> AddAll(<<>>, [i \in 1..Len(all) |-> all[i].res]),
                        fileAttributes |-> MetadataOr(metadata, "fileAttributes", 0),
                        junkNextresmap |-> MetadataOr(metadata, "junk1", Zero32),
                        junkFilerefnum |-> MetadataOr(metadata, "junk2", 0)]]

\* jsonToResourceFork(jsonString, converters): [err, fork]
jsonToResourceFork(doc, convs) ==
    LET Entries(typeName, es) ==
            [j \in 1..Len(es) |-> RestoreEntry(typeName, es[j][1], es[j][2], convs)]
        Types(types) ==
            Concat([t \in 1..Len(types) |->
                       Entries(types[t][1], ObjectEntries(types[t][2]))])
    IN  Restored(IF MapHas(doc, MetadataKey) THEN MapGet(doc, MetadataKey) ELSE <<>>,
                 Types(SelectSeq(ObjectEntries(doc), LAMBDA e : e[1] # MetadataKey)))

(***************************************************************************)
(* Idle values of the variables a scenario does not use.                   *)
(***************************************************************************)
NoParse == [err |-> "none", bytes |-> <<>>]
tnIdle == tag = <<>> /\ sane = <<>> /\ parsed = NoParse
ccIdle == fork = <<>> /\ buf = <<>> /\ damage = <<>> /\ decoded = <<>>
stIdle ==
    /\ source = <<>> /\ template = <<>> /\ resource = <<>>
    /\ unpacked = <<>> /\ packed = <<>> /\ given = <<>>
jsIdle == converters = <<>> /\ json = <<>> /\ restored = <<>>

(***************************************************************************)
(* Scenario: a tag through sanitizeTypeName and back through parseTypeName.*)
(***************************************************************************)
\* Tag bytes: NUL, space, '%', '0', '2', 'A', and a byte above 127.
TagBytes == {0, 32, 37, 48, 50, 65, 200}

InitTypeName ==
    /\ pc = "tag"
    /\ tag \in [1..4 -> TagBytes]
    /\ sane = <<>>
    /\ parsed = NoParse
    /\ ccIdle /\ stIdle /\ jsIdle

Sanitize ==
    /\ pc = "tag"
    /\ sane' = sanitizeTypeName(tag)
    /\ pc' = "sane"
    /\ UNCHANGED <<tag, parsed, ccVars, stVars, jsVars>>

Parse ==
    /\ pc = "sane"
    /\ parsed' = parseTypeName(sane)
    /\ pc' = "parsed"
    /\ UNCHANGED <<tag, sane, ccVars, stVars, jsVars>>

NextTypeName == Sanitize \/ Parse

SpecTypeName == InitTypeName /\ [][NextTypeName]_vars

\* C5: for every 4-byte tag that has no trailing space byte or is four spaces,
\* parseTypeName(sanitizeTypeName(tag)) succeeds and equals the tag.
C5_TagRoundTrip ==
    (pc = "parsed" /\ (tag[4] # 32 \/ isAllSpaces(tag)))
        => (parsed.err = "" /\ parsed.bytes = tag)

(***************************************************************************)
(* Scenario inputs: forks.  A fork is built the way the decoders build     *)
(* one, by Map.set of one resource after another, from a pool of resources.*)
(***************************************************************************)
\* How many resources a scenario's fork is built from.
MaxResources == 3

ResourcePool ==
    << [tag |-> <<65, 66, 67, 68>>, id |-> 128, data |-> <<171>>,
        name |-> Some(<<110>>), flags |-> 255, junk |-> <<65535, 65535>>],
       [tag |-> <<65, 66, 67, 68>>, id |-> -1, data |-> <<>>,
        name |-> Undefined, flags |-> 0, junk |-> Zero32],
       [tag |-> <<0, 65, 66, 67>>, id |-> 128, data |-> <<1, 2>>,
        name |-> Some(<<78, 50>>), flags |-> 1, junk |-> <<1, 0>>],
       [tag |-> <<97, 98, 32, 32>>, id |-> -1, data |-> <<255>>,
        name |-> Undefined, flags |-> 128, junk |-> <<0, 1>>],
       [tag |-> <<65, 66, 67, 68>>, id |-> 1000, data |-> <<0, 16>>,
        name |-> Some(<<120, 121>>), flags |-> 0, junk |-> Zero32] >>

\* The resource a pool entry stands for, under the key fromBytes gives its tag.
PoolResource(p) ==
    [type |-> sanitizeTypeName(p.tag), id |-> p.id, data |-> p.data, name |-> p.name,
     flags |-> p.flags, junk |-> p.junk, order |-> OrderSentinel]

RECURSIVE BuildResources(_)
BuildResources(picks) ==
    IF picks = <<>> THEN <<>>
    ELSE AddResource(BuildResources(SubSeq(picks, 1, Len(picks) - 1)),
                     PoolResource(ResourcePool[picks[Len(picks)]]))

ForkMetas ==
    { [fileAttributes |-> 0, junkNextresmap |-> Zero32, junkFilerefnum |-> 0],
      [fileAttributes |-> 258, junkNextresmap |-> <<65535, 65534>>,
       junkFilerefnum |-> 65535] }

ForkInputs ==
    { [resources |-> BuildResources(picks), fileAttributes |-> m.fileAttributes,
       junkNextresmap |-> m.junkNextresmap, junkFilerefnum |-> m.junkFilerefnum] :
        picks \in UNION {[1..n -> 1..Len(ResourcePool)] : n \in 0..MaxResources},
        m \in ForkMetas }

NoBytes == [err |-> "none", bytes |-> <<>>]
NoDamage == [kind |-> "none", victim |-> 0, orig |-> <<>>]
NoDecode == [err |-> "none", fork |-> EmptyFork]

(***************************************************************************)
(* Scenario: a fork through toBytes and back through fromBytes.            *)
(***************************************************************************)
InitContainer ==
    /\ pc = "fork"
    /\ fork \in ForkInputs
    /\ buf = NoBytes
    /\ damage = NoDamage
    /\ decoded = NoDecode
    /\ tnIdle /\ stIdle /\ jsIdle

Encode ==
    /\ pc = "fork"
    /\ buf' = toBytes(fork)
    /\ pc' = "encoded"
    /\ UNCHANGED <<fork, damage, decoded, tnVars, stVars, jsVars>>

Decode ==
    /\ pc \in {"encoded", "damaged"}
    /\ buf.err = ""
    /\ decoded' = fromBytes(buf.bytes)
    /\ pc' = "decoded"
    /\ UNCHANGED <<fork, buf, damage, tnVars, stVars, jsVars>>

\* The position in the encoded buffer of the i-th flat resource's list entry.
EntryPos(f, i) ==
    MapOffsetOut(f) + TypeListOffsetInMapOut + TypeListSize(f) + (i - 1) * 12

\* bytes with the bytes at position at replaced by patch.
Patch(bytes, at, patch) ==
    [i \in 1..Len(bytes) |->
        IF i > at /\ i <= at + Len(patch) THEN patch[i - at] ELSE bytes[i]]

Damaged(kind, victim) == [kind |-> kind, victim |-> victim, orig |-> buf.bytes]

\* The input is cut to fewer than 16 bytes.
Truncate ==
    /\ pc = "encoded"
    /\ buf.err = ""
    /\ \E n \in 0..15 :
        /\ buf' = [buf EXCEPT !.bytes = SubSeq(@, 1, n)]
        /\ damage' = Damaged("truncated", n)
    /\ pc' = "damaged"
    /\ UNCHANGED <<fork, decoded, tnVars, stVars, jsVars>>

\* One header field is overwritten so that its section's offset + length
\* exceeds the buffer: by one, by 2^31, or with 0xFFFFFFFF.
BreakHeader ==
    /\ pc = "encoded"
    /\ buf.err = ""
    /\ \E field \in {0, 4, 8, 12} :
        LET partner == IF field < 8 THEN field + 8 ELSE field - 8
            other == PairToNat(GetU32(buf.bytes, partner))
        IN  \E v \in {NatToPair(Len(buf.bytes) - other + 1), <<32768, 0>>, <<65535, 65535>>} :
                /\ buf' = [buf EXCEPT !.bytes = Patch(@, field, PairBytes(v))]
                /\ damage' = Damaged("header", field)
    /\ pc' = "damaged"
    /\ UNCHANGED <<fork, decoded, tnVars, stVars, jsVars>>

\* The data offset of one resource entry is overwritten so that the record's
\* length prefix would lie past the end of the buffer.
BreakOffset ==
    /\ pc = "encoded"
    /\ buf.err = ""
    /\ \E i \in 1..ResourceCount(fork) :
        \E v \in {Len(buf.bytes) - DataOffsetOut - 3, Len(buf.bytes) - DataOffsetOut,
                  16777215} :
            /\ buf' = [buf EXCEPT !.bytes =
                          Patch(@, EntryPos(fork, i) + 5,
                                <<(v \div 65536) % 256, (v \div 256) % 256, v % 256>>)]
            /\ damage' = Damaged("offset", i)
    /\ pc' = "damaged"
    /\ UNCHANGED <<fork, decoded, tnVars, stVars, jsVars>>

\* The 4-byte length prefix of one resource's record is overwritten so that
\* the record would extend past the end of the buffer: by one byte, or far.
BreakLength ==
    /\ pc = "encoded"
    /\ buf.err = ""
    /\ \E i \in 1..ResourceCount(fork) :
        LET at == DataOffsetOut + RecordOffset(fork, i)
        IN  \E v \in {NatToPair(Len(buf.bytes) - at - 4 + 1), <<32768, 0>>,
                      <<65535, 65535>>} :
                /\ buf' = [buf EXCEPT !.bytes = Patch(@, at, PairBytes(v))]
                /\ damage' = Damaged("length", i)
    /\ pc' = "damaged"
    /\ UNCHANGED <<fork, decoded, tnVars, stVars, jsVars>>

NextContainer == Encode \/ Decode

NextDamage == Encode \/ Truncate \/ BreakHeader \/ BreakOffset \/ BreakLength \/ Decode

SpecDamage == InitContainer /\ [][NextDamage]_vars

SpecContainer == InitContainer /\ [][NextContainer]_vars

\* The (type, id) keys of a fork.
ForkKeys(f) ==
    UNION {{<<f.resources[t][1], f.resources[t][2][j][1]>> :
                j \in 1..Len(f.resources[t][2])} : t \in 1..Len(f.resources)}
\* The resource under a key.
ForkResource(f, key) == MapGet(MapGet(f.resources, key[1]), key[2])
\* The fields the container stores for a resource.
Stored(res) == [data |-> res.data, name |-> res.name, flags |-> res.flags, junk |-> res.junk]

\* Two forks hold the same (type, id) keys with the same data, name, flags and junk.
SameResources(f, g) ==
    /\ ForkKeys(f) = ForkKeys(g)
    /\ \A key \in ForkKeys(f) : Stored(ForkResource(f, key)) = Stored(ForkResource(g, key))

SameMetadata(f, g) ==
    /\ f.fileAttributes = g.fileAttributes
    /\ f.junkNextresmap = g.junkNextresmap
    /\ f.junkFilerefnum = g.junkFilerefnum

\* C1: for every well-formed fork F, fromBytes(toBytes(F)) succeeds and holds
\* exactly the (type, id) keys of F, each with the same data, name, flags and junk.
C1_ContainerRoundTrip ==
    (pc = "decoded" /\ damage.kind = "none")
        => (decoded.err = "" /\ SameResources(fork, decoded.fork))

\* A fork without the j-th resource of its t-th type (and without the type,
\* when that was its only resource).
WithoutEntry(f, t, j) ==
    LET tr == f.resources[t][2]
        rest == [k \in 1..(Len(tr) - 1) |-> IF k < j THEN tr[k] ELSE tr[k + 1]]
        types == [k \in 1..Len(f.resources) |->
                    IF k = t THEN <<f.resources[k][1], rest>> ELSE f.resources[k]]
    IN  [f EXCEPT !.resources =
            IF rest = <<>>
            THEN [k \in 1..(Len(types) - 1) |-> IF k < t THEN types[k] ELSE types[k + 1]]
            ELSE types]

\* The entry a Break action hit: its type and place in the undamaged decode.
Victim == FlatResources(fork)[damage.victim]
VictimKey ==
    LET o == fromBytes(damage.orig).fork
    IN  <<o.resources[Victim.t][1], o.resources[Victim.t][2][Victim.j][1]>>

\* C6: when one resource entry's data offset lies beyond the buffer, or its
\* length prefix makes the record extend past the end of the buffer, fromBytes
\* does not fail, the entry is absent from the decoded fork, and everything
\* else is decoded exactly as it is from the undamaged buffer.
C6_CorruptionIsolated ==
    (pc = "decoded" /\ damage.kind \in {"offset", "length"})
        => /\ decoded.err = ""
           /\ VictimKey \notin ForkKeys(decoded.fork)
           /\ decoded.fork = WithoutEntry(fromBytes(damage.orig).fork, Victim.t, Victim.j)

\* C6's case: a record made too long was skipped while another resource of the
\* same type and a resource of another type were decoded.
C6_Witness ==
    /\ pc = "decoded"
    /\ damage.kind = "length"
    /\ decoded.err = ""
    /\ Len(decoded.fork.resources) >= 2
    /\ MapHas(decoded.fork.resources, VictimKey[1])

\* C7: fromBytes of an empty buffer is the empty fork with zero metadata; of a
\* buffer of 1..15 bytes, an error; of a buffer of 16 bytes or more whose
\* header puts a section's offset + length past the buffer, an error and no fork.
C7_HeaderStage ==
    pc = "decoded"
        => /\ Len(buf.bytes) = 0 => decoded = Decoded(EmptyFork)
           /\ (Len(buf.bytes) >= 1 /\ Len(buf.bytes) <= 15) => decoded.err # ""
           /\ damage.kind = "header" =>
                (Len(buf.bytes) >= 16 /\ decoded.err # "" /\ decoded.fork = EmptyFork)

\* C7's case: a buffer with a map length one byte too large was refused.
C7_Witness ==
    /\ pc = "decoded"
    /\ damage.kind = "header"
    /\ damage.victim = 12
    /\ GetU32(buf.bytes, 12)[1] = 0
    /\ decoded.err = "Invalid resource fork: offsets/lengths in header are nonsense"

(***************************************************************************)
(* Scenario: a template string through fromTemplateString, and a resource  *)
(* through StructConverter.unpack and back through StructConverter.pack.   *)
(***************************************************************************)
\* How many data bytes a scenario's resource has at most.
MaxData == 3

\* Data bytes: NUL, 1, 'A', and a byte above 127 (all below 0xE0).
StructBytes == {0, 1, 65, 200}

\* Template strings: a scalar, a named record, padding before and after a
\* named field, lists, a string, a boolean, a signed field, the code 'c',
\* the list of empty records, a character no function knows, and records
\* of two fields with one name and with none.
TemplateStrings ==
    { <<"H">>,
      <<"B", "B", ":", "a">>,
      <<"H", "B">>,
      <<"B", "B", ":", "a", ",", "b">>,
      <<"x", "B", ":", "a">>,
      <<"B", "x", ":", "a">>,
      <<"B", "+">>,
      <<"H", "+", ":", "v">>,
      <<"2", "s", ":", "n">>,
      <<"?", "b", ":", "f", ",", "g">>,
      <<"c">>,
      <<"+">>,
      <<"H", "y">> }

StructResource(data) ==
    [type |-> <<65, 66, 67, 68>>, id |-> 128, data |-> data, name |-> Undefined,
     flags |-> 0, junk |-> Zero32, order |-> OrderSentinel]

NoTemplate == CompileError("none")
NoUnpack == Threw("none")

InitStruct ==
    /\ pc = "source"
    /\ source \in TemplateStrings
    /\ template = NoTemplate
    /\ resource \in {StructResource(d) : d \in UNION {[1..n -> StructBytes] : n \in 0..MaxData}}
    /\ unpacked = NoUnpack
    /\ packed = NoBytes
    /\ given = <<>>
    /\ tnIdle /\ ccIdle /\ jsIdle

Compile ==
    /\ pc = "source"
    /\ template' = fromTemplateString(source)
    /\ pc' = "compiled"
    /\ UNCHANGED <<source, resource, unpacked, packed, given, tnVars, ccVars, jsVars>>

Unpack ==
    /\ pc = "compiled"
    /\ template.err = ""
    /\ unpacked' = StructConverter_unpack(resource, template)
    /\ pc' = "unpacked"
    /\ UNCHANGED <<source, template, resource, packed, given, tnVars, ccVars, jsVars>>

Pack ==
    /\ pc = "unpacked"
    /\ unpacked.err = ""
    /\ packed' = StructConverter_pack(unpacked.val, template)
    /\ pc' = "packed"
    /\ UNCHANGED <<source, template, resource, unpacked, given, tnVars, ccVars, jsVars>>

NextStruct == Compile \/ Unpack \/ Pack

SpecStruct == InitStruct /\ [][NextStruct]_vars

\* Whether len is an exact multiple of recordLength.
ExactMultiple(len, recordLength) == \E k \in 0..len : k * recordLength = len

\* The length the claims ask of the resource's data: the record length in
\* single mode, an exact multiple of it in array mode.
LengthFits ==
    IF template.isList THEN ExactMultiple(Len(resource.data), template.recordLength)
    ELSE Len(resource.data) = template.recordLength

\* C2: for every compiled template and every resource whose data length is
\* the record length (single mode) or an exact multiple of it (array mode),
\* unpack returns a value and pack of that value returns the data bytes.
C2_StructByteRoundTrip ==
    (pc \in {"unpacked", "packed"} /\ LengthFits)
        => /\ unpacked.err = ""
           /\ pc = "packed" => (packed.err = "" /\ packed.bytes = resource.data)

\* C8: unpack throws the length error, naming the resource's type, id and
\* data length and the record length, exactly when the data length does not
\* fit; otherwise it returns a value, in array mode the sequence of the
\* data.length / recordLength records in record order.
C8_LengthMismatchDetection ==
    pc \in {"unpacked", "packed"}
        => IF ~LengthFits
           THEN /\ unpacked.err = "length"
                /\ unpacked.about = <<resource.type, resource.id, Len(resource.data),
                                      template.recordLength>>
           ELSE /\ unpacked.err = ""
                /\ template.isList =>
                     /\ unpacked.val.t = "array"
                     /\ Len(unpacked.val.v) * template.recordLength = Len(resource.data)
                     /\ \A i \in 1..Len(unpacked.val.v) :
                            unpacked.val.v[i] =
                                unpackRecord(resource.data, (i - 1) * template.recordLength,
                                             template).val

(***************************************************************************)
(* Scenario: a fork through resourceForkToJson and back through            *)
(* jsonToResourceFork, with the same converter registry.                   *)
(***************************************************************************)
\* The order values a scenario gives the resources of a fork: the sentinel
\* fromBytes sets, zero, and an ordinary position.
Orders == {OrderSentinel, Zero32, <<0, 5>>}

\* f with the order of every resource set to o
WithOrder(f, o) ==
    [f EXCEPT !.resources =
        [t \in 1..Len(@) |->
            <<@[t][1], [j \in 1..Len(@[t][2]) |->
                           <<@[t][2][j][1], [@[t][2][j][2] EXCEPT !.order = o]>>]>>]]

StructEntry(tpl) == [kind |-> "struct", tpl |-> fromTemplateString(tpl)]

\* Registries: empty; a scalar template for 'ABCD'; a two-field record
\* template for 'ABCD'; a registered Base16Converter for 'ABCD' and a
\* one-field record template for 'ab  '.
Registries ==
    { <<>>,
      << <<<<65, 66, 67, 68>>, StructEntry(<<"H">>)>> >>,
      << <<<<65, 66, 67, 68>>, StructEntry(<<"B", "B", ":", "a", ",", "b">>)>> >>,
      << <<<<65, 66, 67, 68>>, Base16>>,
         <<<<97, 98>>, StructEntry(<<"B", ":", "v">>)>> >> }

NoJson == [err |-> "none", doc |-> <<>>]

InitJson ==
    /\ pc = "fork"
    /\ fork \in {WithOrder(f, o) : f \in ForkInputs, o \in Orders}
    /\ converters \in Registries
    /\ json = NoJson
    /\ restored = NoDecode
    /\ buf = <<>> /\ damage = <<>> /\ decoded = <<>>
    /\ tnIdle /\ stIdle

ToJson ==
    /\ pc = "fork"
    /\ json' = resourceForkToJson(fork, converters)
    /\ pc' = "json"
    /\ UNCHANGED <<fork, converters, restored, buf, damage, decoded, tnVars, stVars>>

FromJson ==
    /\ pc = "json"
    /\ json.err = ""
    /\ restored' = jsonToResourceFork(json.doc, converters)
    /\ pc' = "restored"
    /\ UNCHANGED <<fork, converters, json, buf, damage, decoded, tnVars, stVars>>

NextJson == ToJson \/ FromJson

SpecJson == InitJson /\ [][NextJson]_vars

\* C3: the fork restored from the structured text has the same (type, id)
\* keys as the original and, under each key, the same data, name, flags,
\* junk and order.
C3_JsonRoundTrip ==
    pc = "restored"
        => /\ restored.err = ""
           /\ ForkKeys(restored.fork) = ForkKeys(fork)
           /\ \A key \in ForkKeys(fork) :
                  ForkResource(restored.fork, key) = ForkResource(fork, key)

\* C4: fileAttributes, junkNextresmap and junkFilerefnum of the fork
\* restored from the structured text equal the original's, and so do those
\* of the fork decoded from the bytes toBytes wrote.
C4_MetadataPreserved ==
    /\ pc = "restored" => (restored.err = "" /\ SameMetadata(fork, restored.fork))
    /\ (pc = "decoded" /\ damage.kind = "none")
           => (decoded.err = "" /\ SameMetadata(fork, decoded.fork))

\* The entry of the document for a key of the fork.
JsonEntry(doc, key) == MapGet(MapGet(doc, key[1]), NumberString(key[2]))

\* The upper-case hexadecimal digits of a byte sequence, two per byte.
UpperHex(data) ==
    Concat([i \in 1..Len(data) |-> <<HexDigit(data[i] \div 16), HexDigit(data[i] % 16)>>])

\* The resources for which the registered converter's unpack throws.
FailingKeys ==
    {key \in ForkKeys(fork) :
        /\ MapHas(converters, key[1])
        /\ MapGet(converters, key[1]).kind = "struct"
        /\ StructConverter_unpack(ForkResource(fork, key),
                                  MapGet(converters, key[1]).tpl).err # ""}

\* f with the data of the resource under key replaced by one zero record of
\* its type's template, which converts.
Healed(f, key) ==
    [f EXCEPT !.resources =
        [t \in 1..Len(@) |->
            <<@[t][1], [j \in 1..Len(@[t][2]) |->
                <<@[t][2][j][1],
                  IF <<@[t][1], @[t][2][j][1]>> = key
                  THEN [@[t][2][j][2] EXCEPT
                           !.data = Repeat(0, MapGet(converters, key[1]).tpl.recordLength)]
                  ELSE @[t][2][j][2]>>]>>]]

RawKeys == {key \in ForkKeys(fork) : ~MapHas(converters, key[1])}

\* C10: a resource whose type has no registered converter is written as a
\* data string of exactly 2 * len upper-case hexadecimal digits and no obj;
\* Base16Converter.pack of that string, and the data jsonToResourceFork
\* restores from it, are the resource's bytes.
C10_RawHexReversible ==
    (pc \in {"json", "restored"} /\ json.err = "")
        => \A key \in RawKeys :
               LET entry == JsonEntry(json.doc, key)
                   bytes == ForkResource(fork, key).data
               IN  /\ entry.obj = Undefined
                   /\ IsDefined(entry.data)
                   /\ Len(entry.data[1]) = 2 * Len(bytes)
                   /\ \A i \in 1..Len(entry.data[1]) :
                          \/ entry.data[1][i] \in 48..57
                          \/ entry.data[1][i] \in 65..70
                   /\ Base16Converter_pack(JS("string", entry.data[1])) =
                          [err |-> "", bytes |-> bytes]
                   /\ (pc = "restored" /\ restored.err = "")
                          => ForkResource(restored.fork, key).data = bytes

\* A fork restored with raw resources of no bytes, of a byte below 16 and
\* of a byte with a letter digit.
C10_Witness ==
    /\ pc = "restored"
    /\ restored.err = ""
    /\ \E key \in RawKeys : ForkResource(fork, key).data = <<>>
    /\ \E key \in RawKeys : \E i \in 1..Len(ForkResource(fork, key).data) :
           ForkResource(fork, key).data[i] < 16
    /\ \E key \in RawKeys : \E i \in 1..Len(ForkResource(fork, key).data) :
           ForkResource(fork, key).data[i] >= 160

(***************************************************************************)
(* Scenario: a document, as JSON.parse returns it, through                 *)
(* jsonToResourceFork with a registry that need not be the one that wrote  *)
(* it.                                                                     *)
(***************************************************************************)
\* How many entries a scenario's document is built from.
MaxEntries == 2

\* An entry of a document with the given obj and data, and no other
\* property.
DocEntry(obj, data) ==
    [name |-> Undefined, flags |-> Undefined, junk |-> Undefined, order |-> Undefined,
     obj |-> obj, data |-> data, conversionError |-> Undefined]

\* Entries: a number as obj, an object as obj, hex data, neither obj nor
\* data, null as obj, and both obj and data.
EntryPool ==
    << [type |-> <<65, 66, 67, 68>>, id |-> <<49, 50, 56>>,
        entry |-> DocEntry(Some(JS("number", 5)), Undefined)],
       [type |-> <<65, 66, 67, 68>>, id |-> <<49, 50, 57>>,
        entry |-> DocEntry(Some(JS("object", << <<<<"a">>, JS("number", 1)>>,
                                                 <<<<"b">>, JS("number", 2)>> >>)),
                           Undefined)],
       [type |-> <<65, 66, 67, 68>>, id |-> <<45, 49>>,
        entry |-> DocEntry(Undefined, Some(<<65, 66>>))],
       [type |-> <<97, 98>>, id |-> <<49>>,
        entry |-> DocEntry(Undefined, Undefined)],
       [type |-> <<97, 98>>, id |-> <<50>>,
        entry |-> DocEntry(Some(JSNull), Undefined)],
       [type |-> <<88>>, id |-> <<48>>,
        entry |-> DocEntry(Some(JS("number", 7)), Some(<<48, 55>>))] >>

\* jsonData[type][id] = entry, for the picked entries in order
RECURSIVE BuildDocument(_)
BuildDocument(picks) ==
    IF picks = <<>> THEN <<>>
    ELSE LET doc == BuildDocument(SubSeq(picks, 1, Len(picks) - 1))
             e == EntryPool[picks[Len(picks)]]
             typeData == IF MapHas(doc, e.type) THEN MapGet(doc, e.type) ELSE <<>>
         IN  MapSet(doc, e.type, MapSet(typeData, e.id, e.entry))

Documents ==
    {BuildDocument(picks) :
        picks \in UNION {[1..n -> 1..Len(EntryPool)] : n \in 0..MaxEntries}}

\* Registries to restore with: empty; a record template for 'ABCD'; a
\* converter without pack for 'ABCD'; a registered Base16Converter for
\* 'ABCD' with a one-field template for 'ab'; a converter without pack for
\* 'ab' with a scalar template for 'X'.
RestoreRegistries ==
    { <<>>,
      << <<<<65, 66, 67, 68>>, StructEntry(<<"B", "B", ":", "a", ",", "b">>)>> >>,
      << <<<<65, 66, 67, 68>>, UnpackOnly>> >>,
      << <<<<65, 66, 67, 68>>, Base16>>,
         <<<<97, 98>>, StructEntry(<<"B", "x", ":", "v">>)>> >>,
      << <<<<97, 98>>, UnpackOnly>>,
         <<<<88>>, StructEntry(<<"H">>)>> >> }

InitRestore ==
    /\ pc = "json"
    /\ json \in {[err |-> "", doc |-> d] : d \in Documents}
    /\ converters \in RestoreRegistries
    /\ restored = NoDecode
    /\ fork = EmptyFork
    /\ buf = <<>> /\ damage = <<>> /\ decoded = <<>>
    /\ tnIdle /\ stIdle

SpecRestore == InitRestore /\ [][FromJson]_vars

\* The (type, id) keys of a document's entries.
DocKeys(doc) ==
    UNION {{<<doc[t][1], doc[t][2][j][1]>> : j \in 1..Len(doc[t][2])} : t \in 1..Len(doc)}

\* The entries that hold an obj for which the registry has no pack.
NoInverseKeys ==
    {key \in DocKeys(json.doc) :
        /\ IsDefined(MapGet(MapGet(json.doc, key[1]), key[2]).obj)
        /\ \/ ~MapHas(converters, key[1])
           \/ MapGet(converters, key[1]) = UnpackOnly}

\* The entries that hold neither obj nor data.
HollowKeys ==
    {key \in DocKeys(json.doc) :
        /\ ~IsDefined(MapGet(MapGet(json.doc, key[1]), key[2]).obj)
        /\ ~IsDefined(MapGet(MapGet(json.doc, key[1]), key[2]).data)}

\* C11: jsonToResourceFork throws, and returns no fork, whenever the
\* document has an entry with obj whose type has no registered converter or
\* a converter without pack, or an entry with neither obj nor data.
C11_MissingInverseIsError ==
    (pc = "restored" /\ (NoInverseKeys # {} \/ HollowKeys # {}))
        => (restored.err # "" /\ restored.fork = EmptyFork)

\* A document whose first entry was restored and whose second has an obj
\* for a converter without pack, rejected for that.
C11_Witness ==
    /\ pc = "restored"
    /\ Cardinality(DocKeys(json.doc)) = 2
    /\ \E key \in NoInverseKeys : MapHas(converters, key[1])
    /\ HollowKeys = {}
    /\ restored.err = "No pack function available"

(***************************************************************************)
(* Scenario: template strings through fromTemplateString.  A format is an  *)
(* optional byte-order mark, up to MaxTokens tokens and an optional '+';   *)
(* a template string is a format, alone or with a names segment.           *)
(***************************************************************************)
\* How many tokens a scenario's format has at most.
MaxTokens == 2

\* Tokens: fields of every width, padding, repeat counts, a string of two
\* bytes and one of none, white space, a letter no function knows, the
\* code 'c', and a byte-order mark.
Tokens ==
    << <<"H">>, <<"x">>, <<"2", "B">>, <<"2", "s">>, <<"?">>, <<" ">>,
       <<"4", "f">>, <<"d">>, <<"0", "s">>, <<"y">>, <<"c">>, <<"<">> >>

LeadingMarks == {<<>>, <<">">>, <<"=">>}

Formats ==
    {mark \o Concat([k \in 1..Len(p) |-> Tokens[p[k]]]) \o plus :
        mark \in LeadingMarks,
        p \in UNION {[1..n -> 1..Len(Tokens)] : n \in 0..MaxTokens},
        plus \in {<<>>, <<"+">>}}

\* Names segments, each with the colon in front of it: none; one name; two
\* names; an empty name between two names; an array-expansion directive
\* followed by a name; a directive after a name.
NameSegments ==
    { <<>>,
      <<":", "a">>,
      <<":", "a", ",", "b">>,
      <<":", "a", ",", ",", "c">>,
      <<":", "p", Backtick, "q", "[", "2", "]", ",", "e">>,
      <<":", "t", ",", "p", Backtick, "q", "[", "1", "]">> }

InitCompile ==
    /\ pc = "source"
    /\ source \in {f \o n : f \in Formats, n \in NameSegments}
    /\ template = NoTemplate
    /\ resource = StructResource(<<>>)
    /\ unpacked = NoUnpack
    /\ packed = NoBytes
    /\ given = <<>>
    /\ tnIdle /\ ccIdle /\ jsIdle

SpecCompile == InitCompile /\ [][Compile]_vars

\* The format string and the names of the template string.
SourceFormat == Split(source, ":")[1]
SourceNames ==
    IF Len(Split(source, ":")) > 1 THEN Split(Split(source, ":")[2], ",") ELSE <<>>

\* The format without its trailing '+', and that without its leading mark.
SourceBody ==
    IF SourceFormat # <<>> /\ SourceFormat[Len(SourceFormat)] = "+"
    THEN SubSeq(SourceFormat, 1, Len(SourceFormat) - 1) ELSE SourceFormat
SourceTokens ==
    IF SourceBody # <<>> /\ SourceBody[1] \in ByteOrderMarks
    THEN Tail(SourceBody) ELSE SourceBody

\* The type codes of the format grammar.
GrammarCodes ==
    {"B", "b", "H", "h", "I", "L", "i", "l", "Q", "q", "f", "d", "?", "x", "s"}

\* Whether the format is one of the grammar: after the mark and before the
\* '+', only white space, digits and type codes.
Grammatical ==
    /\ SourceFormat # <<>>
    /\ \A k \in 1..Len(SourceTokens) :
           IsSpace(SourceTokens[k]) \/ IsDigit(SourceTokens[k])
           \/ SourceTokens[k] \in GrammarCodes

\* The layout the grammar gives a run of tokens: a code without a count is
\* one field (count < 0 here), 'Ns' is one field of N bytes, and a count N
\* in front of another code is N fields.
RECURSIVE GrammarLayout(_, _)
GrammarLayout(tokens, count) ==
    IF tokens = <<>> THEN <<>>
    ELSE LET c == Head(tokens)
             n == IF count < 0 THEN 1 ELSE count
         IN  IF IsSpace(c) THEN GrammarLayout(Tail(tokens), count)
             ELSE IF IsDigit(c)
                 THEN GrammarLayout(Tail(tokens), 10 * Max(count, 0) + DigitVal(c))
             ELSE IF c = "s"
                 THEN <<[c |-> "s", n |-> n]>> \o GrammarLayout(Tail(tokens), -1)
             ELSE [j \in 1..n |-> [c |-> c, n |-> 1]] \o GrammarLayout(Tail(tokens), -1)

SourceLayout == GrammarLayout(SourceTokens, -1)

\* A plain name: not empty and without a bracket.
PlainName(name) ==
    name # <<>> /\ \A k \in 1..Len(name) : name[k] \notin {"[", "]"}

\* C12: for a format of the grammar whose k >= 1 fields are all
\* non-padding, with a names segment of exactly k plain names,
\* fromTemplateString returns a template whose isList tells whether the
\* format ends with '+', whose fieldNames are the k names in order and
\* whose format is the format string without the '+', with '>' in front
\* when it has no byte-order mark.
C12_CompileWithoutPadding ==
    ( /\ pc = "compiled"
      /\ Grammatical
      /\ Len(SourceLayout) >= 1
      /\ \A k \in 1..Len(SourceLayout) : SourceLayout[k].c # "x"
      /\ Len(SourceNames) = Len(SourceLayout)
      /\ \A j \in 1..Len(SourceNames) : PlainName(SourceNames[j]) )
        => /\ template.err = ""
           /\ template.isList = (SourceFormat[Len(SourceFormat)] = "+")
           /\ template.fieldNames = [j \in 1..Len(SourceNames) |-> Some(SourceNames[j])]
           /\ template.format =
                  IF SourceBody # <<>> /\ SourceBody[1] \in ByteOrderMarks
                  THEN SourceBody ELSE <<">">> \o SourceBody

\* The width the grammar gives a field.
GrammarWidth(field) ==
    CASE field.c = "s" -> field.n
      [] field.c \in {"B", "b", "?", "x"} -> 1
      [] field.c \in {"H", "h"} -> 2
      [] field.c \in {"I", "L", "i", "l", "f"} -> 4
      [] field.c \in {"Q", "q", "d"} -> 8

\* C13: the record length of a compiled format of the grammar is the sum of
\* its fields' widths (N for 'Ns', the width of the code for each of the N
\* fields of any other 'Nc'), and compiling the same format with any other
\* names segment, or none, ends the same way with the same record length.
C13_RecordLength ==
    pc = "compiled"
        => /\ (Grammatical /\ template.err = "")
                  => template.recordLength =
                         SumSeq([k \in 1..Len(SourceLayout) |-> GrammarWidth(SourceLayout[k])])
           /\ \A n \in NameSegments :
                  LET other == fromTemplateString(SourceFormat \o n)
                  IN  other.err = template.err /\ other.recordLength = template.recordLength

\* The layout fromTemplateString compiled: the fields build() split the
\* template's format into.
CompiledLayout == splitStructFormatFields(template.format).fields

\* The positions of the non-padding fields of a layout, in layout order.
NonPadding(fields) ==
    SelectSeq([k \in 1..Len(fields) |-> k], LAMBDA k : fields[k].c # "x")

\* C14: in every compiled template fieldNames is null at every position
\* whose field is 'x', and when the names are all plain the j-th name is
\* the name at the position of the j-th non-padding field.
C14_PaddingNeverNamed ==
    (pc = "compiled" /\ template.err = "")
        => /\ \A k \in 1..Len(CompiledLayout) :
                  CompiledLayout[k].c = "x"
                      => (k <= Len(template.fieldNames) /\ template.fieldNames[k] = Undefined)
           /\ (\A j \in 1..Len(SourceNames) : PlainName(SourceNames[j]))
                  => \A j \in 1..Min(Len(SourceNames), Len(NonPadding(CompiledLayout))) :
                         template.fieldNames[NonPadding(CompiledLayout)[j]]
                             = Some(SourceNames[j])

\* A template with padding in front of two named fields.
C14_Witness ==
    /\ pc = "compiled"
    /\ template.err = ""
    /\ template.fieldNames = <<Undefined, Some(<<"a">>), Some(<<"b">>)>>
    /\ CompiledLayout[1].c = "x"

\* A directive A'B[N] (the apostrophe standing for the backtick) whose A and
\* B are one letter and whose N is one digit.
IsDirective(name) ==
    /\ Len(name) = 6
    /\ name[2] = Backtick /\ name[4] = "[" /\ IsDigit(name[5]) /\ name[6] = "]"
    /\ PlainName(<<name[1], name[3]>>)

\* How many fields from position p on come before the next padding field.
RunFrom(fields, p) ==
    Cardinality({e \in p..Len(fields) : \A k \in p..e : fields[k].c # "x"})

\* C15: a directive A'B[N] that follows d - 1 plain names is reached at
\* the d-th non-padding field; when at least 2N fields without padding
\* start there, they are named A_0, B_0, ..., A_(N-1), B_(N-1) in that
\* order, and the plain names after the directive are the names of the
\* non-padding fields after those 2N, one after another.
C15_ArrayExpansion ==
    (pc = "compiled" /\ template.err = "")
        => \A d \in 1..Min(Len(SourceNames), Len(NonPadding(CompiledLayout))) :
               ( /\ IsDirective(SourceNames[d])
                 /\ \A j \in 1..(d - 1) : PlainName(SourceNames[j])
                 /\ RunFrom(CompiledLayout, NonPadding(CompiledLayout)[d])
                        >= 2 * DigitVal(SourceNames[d][5]) )
               => LET name == SourceNames[d]
                      p == NonPadding(CompiledLayout)[d]
                      N == DigitVal(name[5])
                      after == SelectSeq(NonPadding(CompiledLayout),
                                         LAMBDA k : k >= p + 2 * N)
                  IN  /\ \A i \in 0..(N - 1) :
                             /\ template.fieldNames[p + 2 * i]
                                    = Some(<<name[1], "_">> \o DecString(i))
                             /\ template.fieldNames[p + 2 * i + 1]
                                    = Some(<<name[3], "_">> \o DecString(i))
                      /\ \A j \in 1..Min(Len(SourceNames) - d, Len(after)) :
                             PlainName(SourceNames[d + j])
                                 => template.fieldNames[after[j]] = Some(SourceNames[d + j])

\* Four float fields and one more under a directive for two pairs and a
\* name: the five names of the expansion.
C15_Witness ==
    /\ pc = "compiled"
    /\ template.err = ""
    /\ Len(SourceNames) = 2
    /\ IsDirective(SourceNames[1])
    /\ template.fieldNames =
           << Some(<<"p", "_", "0">>), Some(<<"q", "_", "0">>),
              Some(<<"p", "_", "1">>), Some(<<"q", "_", "1">>), Some(<<"e">>) >>

(***************************************************************************)
(* Scenario: a value through StructConverter.pack under a compiled         *)
(* template.                                                               *)
(***************************************************************************)
\* How many records a scenario's list value has at most.
MaxRecords == 2

\* Templates whose non-padding fields are all named: two bytes; padding in
\* front of a field; padding between two fields; a number, a boolean and a
\* string; a list of records with a signed and an 8-byte field.
PackTemplates ==
    { <<"B", "B", ":", "a", ",", "b">>,
      <<"x", "B", ":", "a">>,
      <<"B", "x", "H", ":", "a", ",", "b">>,
      <<"H", "?", "2", "s", ":", "n", ",", "f", ",", "s">>,
      <<"h", "q", "+", ":", "a", ",", "b">> }

\* The properties a scenario's mapping is chosen from; f is a value that
\* converts to true.
Properties ==
    << <<<<"a">>, JS("number", 5)>>,
       <<<<"b">>, JS("number", -2)>>,
       <<<<"n">>, JS("number", 258)>>,
       <<<<"f">>, JS("number", 1)>>,
       <<<<"s">>, JS("string", <<104, 105>>)>> >>

\* The mappings: one for each set of properties, in the pool's order.
Mappings ==
    {JS("object", SelectSeq(Properties, LAMBDA e : e[1] \in keep)) :
        keep \in SUBSET {Properties[i][1] : i \in 1..Len(Properties)}}

\* The mappings a list value is made of: empty, one with a, one with b,
\* one with both.
ListMappings ==
    {JS("object", SelectSeq(Properties, LAMBDA e : e[1] \in keep)) :
        keep \in SUBSET {<<"a">>, <<"b">>}}

Lists ==
    {JS("array", records) : records \in UNION {[1..n -> ListMappings] : n \in 0..MaxRecords}}

InitPack ==
    /\ pc = "source"
    /\ source \in PackTemplates
    /\ (given \in Mappings \/ given \in Lists)
    /\ template = NoTemplate
    /\ resource = StructResource(<<>>)
    /\ unpacked = NoUnpack
    /\ packed = NoBytes
    /\ tnIdle /\ ccIdle /\ jsIdle

\* StructConverter.pack(given) under the compiled template
PackValue ==
    /\ pc = "compiled"
    /\ template.err = ""
    /\ packed' = StructConverter_pack(given, template)
    /\ pc' = "packed"
    /\ UNCHANGED <<source, template, resource, unpacked, given, tnVars, ccVars, jsVars>>

NextPack == Compile \/ PackValue

SpecPack == InitPack /\ [][NextPack]_vars

\* The bytes the layout's field at position k holds for a mapping: zeros
\* for padding and for a field whose name the mapping lacks; else the
\* mapping's value under the name at position k, as a big-endian number, as
\* 1 for true, or as the string's bytes filled up with zeros.
FieldBytes(mapping, k) ==
    LET field == CompiledLayout[k]
        name == template.fieldNames[k]
        missing == name = Undefined \/ ~MapHas(mapping.v, name[1])
        val == MapGet(mapping.v, name[1])
    IN  IF field.c = "x" \/ missing THEN Repeat(0, GrammarWidth(field))
        ELSE IF field.c = "?" THEN <<1>>
        ELSE IF field.c = "s"
            THEN val.v \o Repeat(0, field.n - Len(val.v))
        ELSE IntBytes(val.v, GrammarWidth(field))

RecordBytes(mapping) ==
    Concat([k \in 1..Len(CompiledLayout) |-> FieldBytes(mapping, k)])

\* C16: for a mapping in single mode and a sequence of mappings in array
\* mode, whichever of the template's names they lack, pack returns; a
\* field whose name is missing is written as zeros and a field whose name
\* is present is written with the value given.
C16_MissingFieldsEncode ==
    ( /\ pc = "packed"
      /\ given # <<>>
      /\ template.isList = (given.t = "array") )
        => /\ packed.err = ""
           /\ packed.bytes =
                  IF template.isList
                  THEN Concat([i \in 1..Len(given.v) |-> RecordBytes(given.v[i])])
                  ELSE RecordBytes(given)

\* C17: fromTemplateString throws for every format in which, between the
\* leading byte-order mark and the trailing '+', there is a character that
\* is neither white space nor a digit nor a type code of the grammar.
C17_UnknownCharsRejected ==
    (pc = "compiled" /\ SourceFormat # <<>> /\ ~Grammatical) => template.err # ""

\* The records StructConverter.unpack returned, in single mode the one.
Records == IF template.isList THEN unpacked.val.v ELSE <<unpacked.val>>

\* The value read for the layout's field at position k of record i.
FieldValue(i, k) ==
    ReadField(resource.data,
              (i - 1) * template.recordLength
                  + SumSeq([j \in 1..(k - 1) |-> FieldWidth(CompiledLayout[j])]),
              CompiledLayout[k])

\* C18: a record of a template with exactly one non-padding field, named
\* or not, is decoded to the value of that field itself; a record of a
\* template with two or more non-padding fields is decoded to a mapping.
C18_ScalarDecode ==
    (pc \in {"unpacked", "packed"} /\ unpacked.err = "")
        => \A i \in 1..Len(Records) :
               /\ Len(NonPadding(CompiledLayout)) = 1
                      => Records[i] = FieldValue(i, NonPadding(CompiledLayout)[1])
               /\ Len(NonPadding(CompiledLayout)) >= 2 => Records[i].t = "object"

\* C19: a record of a template with two or more non-padding fields is
\* decoded to a mapping with as many entries as there are non-padding
\* fields; the value of a named field is under its name, and the value of
\* a field without a name is under some other key.
C19_NoFieldLost ==
    (pc \in {"unpacked", "packed"} /\ unpacked.err = ""
         /\ Len(NonPadding(CompiledLayout)) >= 2)
        => \A i \in 1..Len(Records) :
               /\ Records[i].t = "object"
               /\ Len(Records[i].v) = Len(NonPadding(CompiledLayout))
               /\ \A j \in 1..Len(NonPadding(CompiledLayout)) :
                      LET k == NonPadding(CompiledLayout)[j]
                          named == k <= Len(template.fieldNames)
                                   /\ template.fieldNames[k] # Undefined
                      IN  IF named
                          THEN /\ MapHas(Records[i].v, template.fieldNames[k][1])
                               /\ MapGet(Records[i].v, template.fieldNames[k][1])
                                      = FieldValue(i, k)
                          ELSE \E e \in 1..Len(Records[i].v) :
                                   /\ Records[i].v[e][2] = FieldValue(i, k)
                                   /\ \A n \in 1..Len(template.fieldNames) :
                                          template.fieldNames[n] # Some(Records[i].v[e][1])

\* C20: the entry written for a resource lacks flags exactly when flags is
\* 0, lacks junk exactly when junk is 0 and lacks order exactly when order
\* is the sentinel 0xFFFFFFFF; the resource restored from the entry has the
\* flags, junk and order of the original.
C20_OptionalEntryFields ==
    (pc \in {"json", "restored"} /\ json.err = "")
        => \A key \in ForkKeys(fork) :
               LET entry == JsonEntry(json.doc, key)
                   res == ForkResource(fork, key)
               IN  /\ (entry.flags = Undefined) = (res.flags = 0)
                   /\ (entry.junk = Undefined) = (res.junk = Zero32)
                   /\ (entry.order = Undefined) = (res.order = OrderSentinel)
                   /\ (pc = "restored" /\ restored.err = "")
                          => /\ ForkResource(restored.fork, key).flags = res.flags
                             /\ ForkResource(restored.fork, key).junk = res.junk
                             /\ ForkResource(restored.fork, key).order = res.order

\* The resources whose type has a registered StructConverter.
StructKeys ==
    {key \in ForkKeys(fork) :
        MapHas(converters, key[1]) /\ MapGet(converters, key[1]).kind = "struct"}

\* C21: every entry resourceForkToJson writes holds either obj or data and
\* not both; obj only for a resource whose registered StructConverter
\* returned; data is the upper-case hex of the resource's bytes; and
\* conversionError only next to data, for a resource whose registered
\* converter threw.
C21_ObjXorData ==
    (pc \in {"json", "restored"} /\ json.err = "")
        => \A key \in ForkKeys(fork) :
               LET entry == JsonEntry(json.doc, key)
               IN  /\ IsDefined(entry.obj) # IsDefined(entry.data)
                   /\ IsDefined(entry.obj) => key \in StructKeys \ FailingKeys
                   /\ IsDefined(entry.data)
                          => entry.data[1] = UpperHex(ForkResource(fork, key).data)
                   /\ IsDefined(entry.conversionError)
                          => (IsDefined(entry.data) /\ key \in FailingKeys)

\* A document with an entry of each kind: obj, data after a failed
\* conversion, and data of a type without converter.
C21_Witness ==
    /\ pc = "json"
    /\ json.err = ""
    /\ \E key \in ForkKeys(fork) : IsDefined(JsonEntry(json.doc, key).obj)
    /\ \E key \in ForkKeys(fork) : IsDefined(JsonEntry(json.doc, key).conversionError)
    /\ \E key \in RawKeys : IsDefined(JsonEntry(json.doc, key).data)


(***************************************************************************)
(* Scenario: forks whose resource names use the legacy 8-bit characters    *)
(* above 127, encoded by toBytes and decoded again by fromBytes.           *)
(***************************************************************************)
\* resource.name of the resources: none, "n", "e-acute", "a e-acute",
\* "y-diaeresis b" (code points 233 and 255).
NamePool == <<Undefined, Some(<<110>>), Some(<<233>>), Some(<<97, 233>>), Some(<<255, 98>>)>>

\* The fork of one type 'STR ' whose resources 128, 129, ... carry the picked names.
RECURSIVE NamedResources(_)
NamedResources(picks) ==
    IF picks = <<>> THEN <<>>
    ELSE LET n == Len(picks)
         IN  AddResource(NamedResources(SubSeq(picks, 1, n - 1)),
                         [type |-> sanitizeTypeName(<<83, 84, 82, 32>>), id |-> 127 + n,
                          data |-> Repeat(n, n - 1), name |-> NamePool[picks[n]],
                          flags |-> 0, junk |-> Zero32, order |-> OrderSentinel])

InitNames ==
    /\ pc = "fork"
    /\ \E n \in 1..MaxResources : \E picks \in [1..n -> 1..Len(NamePool)] :
          fork = [EmptyFork EXCEPT !.resources = NamedResources(picks)]
    /\ buf = NoBytes
    /\ damage = NoDamage
    /\ decoded = NoDecode
    /\ tnIdle /\ stIdle /\ jsIdle

SpecNames == InitNames /\ [][NextContainer]_vars

\* The sections of the buffer toBytes lays out for the fork: first position
\* and length of each.
SectionOf(sec) ==
    LET m == MapOffsetOut(fork)
    IN  CASE sec = "data" -> <<DataOffsetOut, DataSize(fork)>>
          [] sec = "typelist" -> <<m + 30, 2 + 8 * TypeCount(fork)>>
          [] sec = "reslist" -> <<m + 30 + 2 + 8 * TypeCount(fork), 12 * ResourceCount(fork)>>
          [] sec = "namelist" ->
                <<m + 30 + 2 + 8 * TypeCount(fork) + 12 * ResourceCount(fork), NameSize(fork)>>
          [] OTHER -> <<0, 16 + DataSize(fork) + MapSize(fork)>>

\* The store w lies inside its own section.
InsideSection(w) ==
    LET s == SectionOf(w.sec)
    IN  w.at >= s[1] /\ w.at + Len(w.bytes) <= s[1] + s[2]

\* C22: toBytes returns a buffer of 16 + sum(4 + len(data)) + 30 + (2 + 8T) +
\* 12R + sum(1 + len(name)) bytes whose header holds dataOffset 16, the data
\* length, mapOffset 16 + data length and the remaining length, and every
\* store into the data section, the type list, the resource list and the
\* name list lies inside the buffer within its own section.
C22_SizeArithmetic ==
    pc = "encoded"
        => LET rs == FlatResources(fork)
               dataLength == SumSeq([i \in 1..Len(rs) |-> 4 + Len(rs[i].res.data)])
               names == SumSeq([i \in 1..Len(rs) |->
                           IF HasName(rs[i].res) THEN 1 + Len(rs[i].res.name[1]) ELSE 0])
               total == 16 + dataLength + 30 + (2 + 8 * TypeCount(fork)) + 12 * Len(rs) + names
               ws == Writes(fork)
           IN  /\ buf.err = ""
               /\ Len(buf.bytes) = total
               /\ GetU32(buf.bytes, 0) = NatToPair(16)
               /\ GetU32(buf.bytes, 8) = NatToPair(dataLength)
               /\ GetU32(buf.bytes, 4) = NatToPair(16 + dataLength)
               /\ GetU32(buf.bytes, 12) = NatToPair(total - 16 - dataLength)
               /\ \A k \in 1..Len(ws) : InsideSection(ws[k])


\* The number of resources of each type of f, in iteration order.
TypeSizes(f) == [t \in 1..Len(f.resources) |-> Len(f.resources[t][2])]

\* C23: fromBytes(toBytes(F)) completes without error for every fork F, the
\* fork with zero types included, and skips no resource: the type count and
\* each type's resource count, written as count - 1, are read back as the
\* original counts.
C23_AlwaysDecodable ==
    (pc = "decoded" /\ damage = NoDamage)
        => /\ decoded.err = ""
           /\ TypeSizes(decoded.fork) = TypeSizes(fork)


\* How many fields from position p on have the type code of the field at p.
KindRunFrom(fields, p) ==
    Cardinality({e \in p..Len(fields) : \A k \in p..e : fields[k].c = fields[p].c})

\* The names a directive generates: its first or its second name, an
\* underscore and a number.
Synthetic(directive, bound) ==
    /\ IsDefined(bound)
    /\ Len(bound[1]) >= 3
    /\ bound[1][1] \in {directive[1], directive[3]}
    /\ bound[1][2] = "_"
    /\ \A k \in 3..Len(bound[1]) : IsDigit(bound[1][k])

\* C24: a directive A'B[N] reached at a non-padding field binds its names
\* only to the run of fields of that field's kind which starts there: with
\* fewer than 2N such fields it generates only the pairs that fit, no name
\* of the directive is bound to a padding field or to a field of another
\* kind, and the plain names after the directive are the names of the
\* non-padding fields after the consumed fields.
C24_LenientTruncation ==
    (pc = "compiled" /\ template.err = "" /\ Grammatical)
        => \A d \in 1..Min(Len(SourceNames), Len(NonPadding(CompiledLayout))) :
               ( /\ IsDirective(SourceNames[d])
                 /\ \A j \in 1..(d - 1) : PlainName(SourceNames[j]) )
               => LET name == SourceNames[d]
                      p == NonPadding(CompiledLayout)[d]
                      pairs == Min(DigitVal(name[5]), KindRunFrom(CompiledLayout, p) \div 2)
                      after == SelectSeq(NonPadding(CompiledLayout),
                                         LAMBDA k : k >= p + 2 * pairs)
                  IN  /\ \A i \in 0..(pairs - 1) :
                             /\ template.fieldNames[p + 2 * i]
                                    = Some(<<name[1], "_">> \o DecString(i))
                             /\ template.fieldNames[p + 2 * i + 1]
                                    = Some(<<name[3], "_">> \o DecString(i))
                      /\ \A k \in 1..Len(CompiledLayout) :
                             Synthetic(name, template.fieldNames[k])
                                 => /\ k \in p..(p + 2 * pairs - 1)
                                    /\ CompiledLayout[k].c = CompiledLayout[p].c
                      /\ \A j \in 1..Min(Len(SourceNames) - d, Len(after)) :
                             PlainName(SourceNames[d + j])
                                 => template.fieldNames[after[j]] = Some(SourceNames[d + j])


\* The packed attributes of the i-th resource entry of the encoded buffer:
\* the top 8 bits and the low 24 bits of the 32-bit value at the entry's
\* bytes 4..7.
EntryFlags(i) == GetU8(buf.bytes, EntryPos(fork, i) + 4)
EntryOffset(i) ==
    LET at == EntryPos(fork, i)
    IN  GetU8(buf.bytes, at + 5) * 65536 + GetU8(buf.bytes, at + 6) * 256
            + GetU8(buf.bytes, at + 7)

\* C25: in the buffer toBytes returns, the top 8 bits of each entry's
\* attributes are the resource's flags and the low 24 bits the offset,
\* relative to the data section, of the resource's 4-byte length prefix;
\* the prefix holds the length of the data that follow it, and the records
\* lie back to back in iteration order: the first at 0, each next one at
\* the end of the one before, the last ending at the end of the data section.
C25_PackedAttributes ==
    (pc = "encoded" /\ buf.err = "")
        => LET rs == FlatResources(fork)
               dataOffset == PairToNat(GetU32(buf.bytes, 0))
               dataLength == PairToNat(GetU32(buf.bytes, 8))
               End(i) == EntryOffset(i) + 4 + Len(rs[i].res.data)
           IN  /\ \A i \in 1..Len(rs) :
                      /\ EntryFlags(i) = rs[i].res.flags
                      /\ EntryOffset(i) = IF i = 1 THEN 0 ELSE End(i - 1)
                      /\ GetU32(buf.bytes, dataOffset + EntryOffset(i))
                             = NatToPair(Len(rs[i].res.data))
                      /\ SubSeq(buf.bytes, dataOffset + EntryOffset(i) + 5,
                                dataOffset + End(i)) = rs[i].res.data
               /\ Len(rs) > 0 => End(Len(rs)) = dataLength

\* Three resources, the last one with flags 128 and a record that starts
\* after two others.
C25_Witness ==
    /\ pc = "encoded"
    /\ buf.err = ""
    /\ ResourceCount(fork) = 3
    /\ EntryFlags(3) >= 128
    /\ EntryOffset(3) > 8
    /\ EntryFlags(1) = 0


\* C26: for a fork whose names are strings of 8-bit characters, toBytes
\* returns a buffer in which each named resource's entry holds the sum of
\* 1 + length over the named resources before it, the byte at that offset
\* of the name list is the name's length and the bytes after it are the
\* name's characters, one byte each; an unnamed resource's entry holds
\* 0xFFFF; and fromBytes gives every resource its name, or none, back.
C26_NameList ==
    LET rs == FlatResources(fork)
        back == FlatResources(decoded.fork)
        nameList == PairToNat(GetU32(buf.bytes, 4))
                        + GetU16(buf.bytes, PairToNat(GetU32(buf.bytes, 4)) + 26)
        Before(i) == SumSeq([k \in 1..(i - 1) |->
                        IF IsDefined(rs[k].res.name) THEN 1 + Len(rs[k].res.name[1]) ELSE 0])
        NameOffsetAt(i) == GetU16(buf.bytes, EntryPos(fork, i) + 2)
    IN  /\ pc \in {"encoded", "decoded"}
            => /\ buf.err = ""
               /\ \A i \in 1..Len(rs) :
                      IF IsDefined(rs[i].res.name)
                      THEN /\ NameOffsetAt(i) = Before(i)
                           /\ GetU8(buf.bytes, nameList + NameOffsetAt(i)) = Len(rs[i].res.name[1])
                           /\ SubSeq(buf.bytes, nameList + NameOffsetAt(i) + 2,
                                     nameList + NameOffsetAt(i) + 1 + Len(rs[i].res.name[1]))
                                  = rs[i].res.name[1]
                      ELSE NameOffsetAt(i) = 65535
        /\ pc = "decoded"
            => /\ decoded.err = ""
               /\ Len(back) = Len(rs)
               /\ \A i \in 1..Len(rs) : back[i].res.name = rs[i].res.name


\* The keys of the types of f, in iteration order.
TypeKeys(f) == [t \in 1..Len(f.resources) |-> f.resources[t][1]]

\* C27: toBytes writes, as the tag of each type with key K, the 4 bytes
\* parseTypeName(K), and fromBytes of the buffer returns the types under
\* the same keys.
C27_TypeTags ==
    /\ (pc \in {"encoded", "decoded"} /\ buf.err = "")
           => \A t \in 1..Len(fork.resources) :
                  LET at == PairToNat(GetU32(buf.bytes, 4)) + 30 + 2 + (t - 1) * 8
                      raw == parseTypeName(fork.resources[t][1])
                  IN  /\ raw.err = ""
                      /\ SubSeq(buf.bytes, at + 1, at + 4) = raw.bytes
    /\ (pc = "decoded" /\ damage = NoDamage /\ decoded.err = "")
           => TypeKeys(decoded.fork) = TypeKeys(fork)


(***************************************************************************)
(* Scenario: a value that fits the template is packed and the bytes are    *)
(* unpacked again.                                                         *)
(***************************************************************************)
\* Templates with the fields a and b: two bytes; padding between the two;
\* padding after the two.
PairTemplates ==
    { <<"B", "B", ":", "a", ",", "b">>,
      <<"B", "x", "H", ":", "a", ",", "b">>,
      <<"B", "B", "x", ":", "a", ",", "b">> }

\* Templates with the field a alone: padding before it; padding after it.
SingleTemplates == { <<"x", "B", ":", "a">>, <<"B", "x", ":", "a">> }

\* Templates without names, of one field: the value is the field's.
ScalarTemplates == { <<"H">>, <<"B">> }

\* A list template: records of a signed 16-bit and an unsigned 8-bit field.
ListTemplates == { <<"h", "B", "+", ":", "a", ",", "b">> }

\* The values of an unsigned 8-bit field, and of the list's signed field.
ByteValues == {0, 5, 255}
ShortValues == {-2, 3}

\* The mapping { a: va, b: vb }.
PairValue(va, vb) ==
    JS("object", << <<<<"a">>, JS("number", va)>>, <<<<"b">>, JS("number", vb)>> >>)

InitValue ==
    /\ pc = "source"
    /\ \/ /\ source \in PairTemplates
          /\ \E va \in ByteValues, vb \in ByteValues : given = PairValue(va, vb)
       \/ /\ source \in SingleTemplates
          /\ \E va \in ByteValues : given = JS("object", << <<<<"a">>, JS("number", va)>> >>)
       \/ /\ source \in ScalarTemplates
          /\ \E v \in ByteValues : given = JS("number", v)
       \/ /\ source \in ListTemplates
          /\ \E n \in 0..MaxRecords :
                \E va \in [1..n -> ShortValues], vb \in [1..n -> ByteValues] :
                    given = JS("array", [i \in 1..n |-> PairValue(va[i], vb[i])])
    /\ template = NoTemplate
    /\ resource = StructResource(<<>>)
    /\ unpacked = NoUnpack
    /\ packed = NoBytes
    /\ tnIdle /\ ccIdle /\ jsIdle

\* StructConverter.unpack of a resource whose data are the packed bytes.
UnpackPacked ==
    /\ pc = "packed"
    /\ packed.err = ""
    /\ resource' = StructResource(packed.bytes)
    /\ unpacked' = StructConverter_unpack(StructResource(packed.bytes), template)
    /\ pc' = "unpackedAgain"
    /\ UNCHANGED <<source, template, packed, given, tnVars, ccVars, jsVars>>

NextValue == Compile \/ PackValue \/ UnpackPacked

SpecValue == InitValue /\ [][NextValue]_vars

\* C28: for every template, those with padding before a named field and
\* those of one unnamed field included, and every value that fits it,
\* pack returns bytes and unpack of the bytes returns the value.
C28_ValueRoundTrip ==
    /\ pc = "compiled" => template.err = ""
    /\ pc = "packed" => packed.err = ""
    /\ pc = "unpackedAgain" => (unpacked.err = "" /\ unpacked.val = given)


(***************************************************************************)
(* Scenario: the header of an encoded fork declares a map section shorter  *)
(* than the map that follows; the header check passes.                     *)
(***************************************************************************)
\* The header's mapLength is overwritten with a smaller value: nothing, the
\* map header alone, or everything but the last byte of the resource list.
ShrinkMap ==
    /\ pc = "encoded"
    /\ buf.err = ""
    /\ \E v \in {0, MapHeaderSize, NameListOffsetInMapOut(fork) - 1} :
        /\ buf' = [buf EXCEPT !.bytes = Patch(@, 12, U32Bytes(v))]
        /\ damage' = Damaged("map", v)
    /\ pc' = "damaged"
    /\ UNCHANGED <<fork, decoded, tnVars, stVars, jsVars>>

NextShortMap == Encode \/ ShrinkMap \/ Decode

SpecShortMap == InitContainer /\ [][NextShortMap]_vars

\* C29: when the buffer passes the header check, fromBytes reads the map
\* header, the type list and the resource list entries inside the map
\* section the header declares only: a buffer whose map header, type list
\* or resource list does not lie inside [mapOffset, mapOffset + mapLength)
\* makes it throw, and no fork is built from bytes outside the section.
C29_ReadsInsideMap ==
    (pc = "decoded" /\ damage # NoDamage /\ damage.kind = "map")
        => LET mapLength == PairToNat(GetU32(buf.bytes, 12))
               typeList == GetU16(buf.bytes, PairToNat(GetU32(buf.bytes, 4)) + 24)
               lastRead == typeList + TypeListSize(fork) + ResourceListSize(fork)
           IN  /\ ~HeaderIsNonsense(buf.bytes)
               /\ lastRead > mapLength => decoded.err # ""


\* C30: whenever fromTemplateString returns a template, its list of field
\* names has one entry for each field of the layout, whatever the names
\* list holds: fewer names than fields, more names than fields, empty
\* names, directives.
C30_NamesParallelToLayout ==
    (pc = "compiled" /\ template.err = "")
        => Len(template.fieldNames) = Len(CompiledLayout)

\* A padding byte and four floats under a directive for two pairs and one
\* more name: five entries, the first for the padding, the name left over.
C30_Witness ==
    /\ pc = "compiled"
    /\ template.err = ""
    /\ Len(SourceNames) = 2
    /\ Len(CompiledLayout) = 5
    /\ CompiledLayout[1].c = "x"
    /\ template.fieldNames[1] = Undefined
    /\ template.fieldNames[5] = Some(<<"q", "_", "1">>)

=============================================================================
